---- MODULE Spec2Model ----
(***************************************************************************)
(* Verification model of dg-satellite: the file-system substrate, the      *)
(* device catalog, the rollout engine (operator PUT handler,               *)
(* Storage.CreateRollout, Storage.CommitRollout, the rollout watchdog) and *)
(* the device gateway's events and apps-states storage.                    *)
(*                                                                         *)
(* Strings are sequences of tokens, so that prefix/suffix tests and the    *)
(* splitting of journal lines are computed, not assumed.  A JSON document  *)
(* is the record it unmarshals to.                                         *)
(***************************************************************************)
EXTENDS Integers, Sequences, FiniteSets, TLC

(***************************************************************************)
(* Strings                                                                 *)
(***************************************************************************)
Str(t) == <<t>>

HasSuffix(s, suffix) ==
    /\ Len(s) >= Len(suffix)
    /\ SubSeq(s, Len(s) - Len(suffix) + 1, Len(s)) = suffix

HasPrefix(s, prefix) ==
    /\ Len(s) >= Len(prefix)
    /\ SubSeq(s, 1, Len(prefix)) = prefix

\* strings.Split(s, sep) for a one-token separator: the pieces between the
\* separators, empty pieces included
Split(s, sep) ==
    LET pos    == {i \in 1..Len(s) : s[i] = sep}
        n      == Cardinality(pos)
        Kth(k) == CHOOSE i \in pos : Cardinality({j \in pos : j < i}) = k - 1
    IN  [k \in 1..(n + 1) |->
            SubSeq(s, IF k = 1 THEN 1 ELSE Kth(k - 1) + 1,
                      IF k = n + 1 THEN Len(s) ELSE Kth(k) - 1)]

\* bufio.Scanner with ScanLines: newline-terminated lines, plus a final
\* unterminated line when it is not empty
ScanLines(s) ==
    LET pieces == Split(s, "\n")
    IN  IF pieces[Len(pieces)] = <<>>
        THEN SubSeq(pieces, 1, Len(pieces) - 1)
        ELSE pieces

(***************************************************************************)
(* Names on disk                                                           *)
(***************************************************************************)
partialFileSuffix  == <<"..part">>
rolloutJournalFile == <<"rollouts.journal">>
EventsPrefix       == <<"events">>
StatesPrefix       == <<"apps-states">>
AktomlFile         == <<"aktoml">>

\* filepath.Join
Join(a, b) == a \o <<"/">> \o b

UpdatesBranchDir(isProd) ==
    Join(<<"updates">>, IF isProd THEN <<"prod">> ELSE <<"ci">>)

\* UpdatesFsHandle.updateLocalHandle with category "rollouts"
RolloutsDir(isProd, tag, update) ==
    Join(Join(Join(UpdatesBranchDir(isProd), tag), update), <<"rollouts">>)

\* DevicesFsHandle.deviceLocalHandle
DeviceDir(uuid) == Join(<<"devices">>, Str(uuid))

(***************************************************************************)
(* The file system: fs maps a directory path to its entries, an entry maps *)
(* a file name to [content, mtime].  content is a sequence: the tokens of  *)
(* a journal, the lines of an events file, the one JSON document of a      *)
(* rollout or inventory file (empty when the write was cut short).         *)
(***************************************************************************)
EmptyDir == [n \in {} |-> [content |-> <<>>, mtime |-> 0]]

DirEntries(f, dir) == IF dir \in DOMAIN f THEN f[dir] ELSE EmptyDir

FileExists(f, dir, name) == name \in DOMAIN DirEntries(f, dir)

\* os.ReadFile of an existing file
FileContent(f, dir, name) == f[dir][name].content

PutEntry(f, dir, name, file) ==
    [d \in DOMAIN f \cup {dir} |->
        IF d = dir
        THEN [n \in DOMAIN DirEntries(f, dir) \cup {name} |->
                 IF n = name THEN file ELSE f[dir][n]]
        ELSE f[d]]

\* os.Remove of an existing file
RemoveEntry(f, dir, name) ==
    [f EXCEPT ![dir] = [n \in DOMAIN f[dir] \ {name} |-> f[dir][n]]]

\* os.Rename: the source replaces the target and keeps its mtime
RenameEntry(f, dir, from, to) ==
    [f EXCEPT ![dir] =
        [n \in (DOMAIN f[dir] \ {from}) \cup {to} |->
            IF n = to THEN f[dir][from] ELSE f[dir][n]]]

\* baseFsHandle.writeFile up to fd.Close: the content goes to name..part
\* (O_CREATE|O_TRUNC), the directory having been made by the caller's mkdirs
WritePartial(f, dir, name, content, now) ==
    PutEntry(f, dir, name \o partialFileSuffix,
             [content |-> content, mtime |-> now])

\* a write that opens the target itself with O_TRUNC
WritePartialCut_InPlace(f, dir, name, now) ==
    PutEntry(f, dir, name, [content |-> <<>>, mtime |-> now])

\* baseFsHandle.writeFile failing after the open: a truncated partial stays
WritePartialCut(f, dir, name, now) ==
    PutEntry(f, dir, name \o partialFileSuffix,
             [content |-> <<>>, mtime |-> now])

\* baseFsHandle.writeFile, the final os.Rename(partial, path)
RenamePartial(f, dir, name) ==
    RenameEntry(f, dir, name \o partialFileSuffix, name)

\* baseFsHandle.appendFile: O_CREATE|O_APPEND|O_SYNC, one write
appendFile(f, dir, name, content, now) ==
    PutEntry(f, dir, name,
             [content |-> (IF FileExists(f, dir, name)
                           THEN FileContent(f, dir, name) ELSE <<>>) \o content,
              mtime   |-> now])

\* a listing that does not skip partial files
matchFiles_NoFilter(f, dir, prefix) ==
    {n \in DOMAIN DirEntries(f, dir) :
        Len(prefix) = 0 \/ HasPrefix(n, prefix)}

\* baseFsHandle.matchFiles: the names of a directory that do not end in the
\* partial suffix and start with prefix (any name when prefix is empty)
matchFiles(f, dir, prefix) ==
    {n \in DOMAIN DirEntries(f, dir) :
        /\ ~HasSuffix(n, partialFileSuffix)
        /\ (Len(prefix) = 0 \/ HasPrefix(n, prefix))}

\* The first k names of matchFiles(prefix, sortByModTime=true): every order
\* the unstable sort may give to files of equal mtime
RECURSIVE OldestFirst(_, _, _, _)
OldestFirst(f, dir, names, k) ==
    IF k <= 0 \/ names = {} THEN {<<>>}
    ELSE UNION {{<<m>> \o t : t \in OldestFirst(f, dir, names \ {m}, k - 1)} :
                m \in {n \in names :
                         \A o \in names : f[dir][n].mtime <= f[dir][o].mtime}}

(***************************************************************************)
(* Bounds and the small universe of inputs                                 *)
(***************************************************************************)
MaxFaults == 1     \* injected I/O or catalog failures and crashes in one behaviour

Handlers == {1, 2}

\* the request goroutine that runs beside the watchdog; both run where PUT
\* requests meet each other
OneHandler == {1}

Uploaders == {1, 2}

\* the request goroutine where requests are served one at a time
OneUploader == {1}

MaxOps == 3        \* gateway uploads and file writes in one behaviour

maxEvents == 20    \* Storage.maxEvents
maxStates == 10    \* Storage.maxStates

Null == "NULL"     \* SQL NULL of a generated column whose label is missing

Tag1 == Str("tag1")
Tag2 == Str("tag2")
Update1 == Str("update1")
Update2 == Str("update2")
Update3 == Str("update3")
Roll1 == Str("roll1")

\* updates staged on disk: the <tag>/<update> directories of the ci branch
StagedUpdates == {<<Tag1, Update1>>, <<Tag1, Update2>>}

\* the devices table: the columns the rollout engine reads or writes
InitDevices ==
    [u \in {"ci1", "ci2", "ci3", "ci4", "prod1"} |->
        [tag         |-> IF u = "ci3" THEN Tag2 ELSE Tag1,
         is_prod     |-> (u = "prod1"),
         group_name  |-> IF u \in {"ci2", "ci3", "prod1"} THEN "grp1" ELSE Null,
         deleted     |-> (u = "ci4"),
         update_name |-> <<>>]]

\* Rollout as bound from the request body; valid = the body parses
Body(valid, uuids, groups, effect, commit) ==
    [valid |-> valid, uuids |-> uuids, groups |-> groups,
     effect |-> effect, commit |-> commit]

Bodies ==
    {Body(TRUE, {"ci1", "ci3", "ci4", "prod1", "ghost"}, {"grp1"}, {}, FALSE),
     Body(TRUE, {"ci1"}, {}, {}, TRUE),
     Body(TRUE, {}, {}, {}, FALSE),
     Body(TRUE, {"ci1"}, {}, {"ci1"}, FALSE),
     Body(FALSE, {}, {}, {}, FALSE)}

\* the Rollout values the daemon test hands to Storage.CreateRollout
CreateBodies == {b \in Bodies : b.valid /\ ~b.commit /\ b.effect = {}
                                 /\ (b.uuids # {} \/ b.groups # {})}

\* PUT /updates/ci/<tag>/<update>/rollouts/<rollout> requests; update3 is
\* not staged
Request(tag, update, name, body) ==
    [tag |-> tag, update |-> update, name |-> name, body |-> body]

Requests ==
    {Request(Tag1, Update1, Roll1, b) : b \in Bodies}
        \cup {Request(Tag1, Update3, Roll1, b) : b \in CreateBodies}

\* arguments of direct Storage.CreateRollout calls
CreateRequests ==
    [tag : {Tag1}, update : {Update1}, name : {Roll1}, body : CreateBodies]

\* the same, for rollouts of two updates of the branch
RecoveryRequests ==
    [tag : {Tag1}, update : {Update1, Update2}, name : {Roll1},
     body : CreateBodies]

\* an update event as eventsUpload binds it: its id and its correlationId
UpdateEvent(id, corrId) == [id |-> id, correlationId |-> corrId]

\* correlation ids: those of the events files already stored are c1..c19
CorrId(i) == <<"c", ToString(i)>>
NewCorr1 == Str("n1")
NewCorr2 == Str("n2")
PartCorr == <<"x">> \o partialFileSuffix
NlCorr == <<"n", "\n", "l">>

\* bodies of POST /events
EventBatches ==
    {<<UpdateEvent("1", NewCorr1)>>,
     <<UpdateEvent("1", NewCorr1), UpdateEvent("2", NewCorr2)>>,
     <<UpdateEvent("1", CorrId(1)), UpdateEvent("", NewCorr2),
       UpdateEvent("3", <<>>)>>,
     <<UpdateEvent("1", PartCorr)>>,
     <<UpdateEvent("1", NlCorr)>>,
     <<UpdateEvent("", NewCorr1)>>}

\* the device whose directory is modelled
Dev == "ci1"

NoRollout == [uuids |-> {}, groups |-> {}, effect |-> {}, commit |-> FALSE]
NoRequest == [tag |-> <<>>, update |-> <<>>, name |-> <<>>,
              body |-> Body(FALSE, {}, {}, {}, FALSE)]

(***************************************************************************)
(* State                                                                   *)
(***************************************************************************)
VARIABLE fs           \* the data directory
VARIABLE clock        \* file-system time in milliseconds
VARIABLE devices      \* the devices table of the catalog
VARIABLE hPc          \* per PUT handler: position in rolloutPut
VARIABLE hReq         \* per PUT handler: path parameters and bound body
VARIABLE hEff         \* per PUT handler: rollout.Effect
VARIABLE hResp        \* per PUT handler: HTTP status written (0 = none yet)
VARIABLE cPc          \* CreateRollout caller: position
VARIABLE cReq         \* CreateRollout caller: arguments
VARIABLE wdPc         \* watchdog: position in rolloutWatchdog/processJournal
VARIABLE wdFirstRun   \* watchdog: firstRun
VARIABLE wdSuccess    \* watchdog: success of the pass in progress
VARIABLE wdLines      \* watchdog: journal lines still to be yielded
VARIABLE wdLine       \* watchdog: (tag, update, rollout) of the line in hand
VARIABLE wdRollout    \* watchdog: the rollout read for that line
VARIABLE wdRepeat     \* history: the commit in hand repeats a catalog update
VARIABLE catalogDone  \* history: rollouts whose catalog update has succeeded
VARIABLE nFail        \* injected failures and crashes so far
VARIABLE up           \* per gateway request: locals of the storage call in hand
VARIABLE nOps         \* gateway, operator and file requests started so far
VARIABLE gw           \* the device gateway request in hand
VARIABLE op           \* the operator's last label request and its answer
VARIABLE users        \* the users table
VARIABLE tokens       \* the tokens table
VARIABLE sessions     \* the session table
VARIABLE ui           \* per web request: position, the User object in hand, answer
VARIABLE tail         \* logs/rollouts.log of one update and its tail connections
VARIABLE sd           \* daemons.Shutdown and the watchdog of the prod branch

rolloutVars == <<devices, hPc, hReq, hEff, hResp, cPc, cReq, wdPc, wdFirstRun,
                 wdSuccess, wdLines, wdLine, wdRollout, wdRepeat, catalogDone>>

catalogVars == <<gw, op, users, tokens, sessions, ui, tail, sd>>

\* no gateway request in hand; no label request answered yet (n: the number
\* of the request among those started)
NoHeaders == [has |-> {}, tags |-> <<>>, target |-> "", ostreehash |-> "",
              dockerapps |-> ""]
NoGw == [n |-> 0, pc |-> "idle", uuid |-> "", kind |-> "", hdr |-> NoHeaders,
         resp |-> 0]
NoOp == [n |-> 0, uuid |-> "", body |-> <<>>, resp |-> 0]

\* the web requests that can be in hand at once; a nil *User; no web request
\* in hand
UiHandlers == {1, 2}
NilUser == [id |-> -1, Username |-> "", AllowedScopes |-> {}, Deleted |-> FALSE]
NoUi == [n |-> 0, pc |-> "idle", user |-> NilUser, call |-> "", scopes |-> {},
         target |-> NilUser, resp |-> 0]
Conns == {1, 2}
NoConn == [pc |-> "idle", k |-> 0, pos |-> 0, n |-> 0, at |-> 0, out |-> <<>>,
           cancelled |-> FALSE, done |-> FALSE, missing |-> FALSE,
           err |-> FALSE, polls |-> 0]
\* Shutdown not called, the other watchdog in its first pass
NoSd == [pc |-> "idle", prod |-> "pass"]
NoTail == [exists |-> FALSE, log |-> <<>>, faults |-> 0,
           conn |-> [c \in Conns |-> NoConn]]

\* a gateway or file request that is not running
NoCall == [pc |-> "idle", dir |-> <<>>, name |-> <<>>, content |-> <<>>,
           prefix |-> <<>>, max |-> 0, batch |-> <<>>, events |-> <<>>,
           corr |-> <<>>, remove |-> <<>>]

(***************************************************************************)
(* Catalog: stmtDeviceSetUpdate                                            *)
(***************************************************************************)
\* the statement without its tag condition
stmtDeviceSetUpdate_NoTag(devs, u, updateName, tag, isProd, uuids, groups) ==
    /\ devs[u].is_prod = isProd
    /\ \/ u \in uuids
       \/ (devs[u].group_name # Null /\ devs[u].group_name \in groups)

\* WHERE tag=? AND is_prod=? AND (uuid IN uuids OR group_name IN groups);
\* a NULL group_name is IN nothing
stmtDeviceSetUpdate(devs, u, updateName, tag, isProd, uuids, groups) ==
    /\ devs[u].tag = tag
    /\ devs[u].is_prod = isProd
    /\ \/ u \in uuids
       \/ (devs[u].group_name # Null /\ devs[u].group_name \in groups)

\* a statement returning only the rows whose update_name it changed
SetUpdateNameUuids_ChangedOnly(devs, tag, updateName, isProd, uuids, groups) ==
    {u \in DOMAIN devs :
        /\ stmtDeviceSetUpdate(devs, u, updateName, tag, isProd, uuids, groups)
        /\ devs[u].update_name # updateName}

\* RETURNING uuid: Storage.SetUpdateName's effectiveUuids
SetUpdateNameUuids(devs, tag, updateName, isProd, uuids, groups) ==
    {u \in DOMAIN devs :
        stmtDeviceSetUpdate(devs, u, updateName, tag, isProd, uuids, groups)}

\* SET update_name=?: the table after Storage.SetUpdateName
SetUpdateName(devs, tag, updateName, isProd, uuids, groups) ==
    [u \in DOMAIN devs |->
        IF u \in SetUpdateNameUuids(devs, tag, updateName, isProd, uuids, groups)
        THEN [devs[u] EXCEPT !.update_name = updateName]
        ELSE devs[u]]

(***************************************************************************)
(* Rollout storage (storage/api)                                           *)
(***************************************************************************)
Rollout(uuids, groups, effect, commit) ==
    [uuids |-> uuids, groups |-> groups, effect |-> effect, commit |-> commit]

\* Storage.GetRollout: ReadFile, then json.Unmarshal
GetRollout(f, tag, updateName, rolloutName, isProd) ==
    LET dir == RolloutsDir(isProd, tag, updateName) IN
    IF ~FileExists(f, dir, rolloutName)
    THEN [err |-> "notexist", rollout |-> NoRollout]
    ELSE IF Len(FileContent(f, dir, rolloutName)) # 1
    THEN [err |-> "json", rollout |-> NoRollout]
    ELSE [err |-> "", rollout |-> FileContent(f, dir, rolloutName)[1]]

\* Storage.CommitRollout up to SaveRollout: the rollout it goes on to save
CommitRollout(devs, tag, updateName, isProd, rollout) ==
    [rollout EXCEPT
        !.effect = SetUpdateNameUuids(devs, tag, updateName, isProd,
                                      rollout.uuids, rollout.groups),
        !.commit = TRUE]

\* RolloutsFsHandle.ListUpdates(tag)[tag] contains updateName
UpdateExists(f, tag, updateName, isProd) ==
    \/ (~isProd /\ <<tag, updateName>> \in StagedUpdates)
    \/ RolloutsDir(isProd, tag, updateName) \in DOMAIN f

\* RolloutsFsHandle.ListFiles
ListRollouts(f, tag, updateName, isProd) ==
    matchFiles(f, RolloutsDir(isProd, tag, updateName), <<>>)

\* the journal line Storage.CreateRollout builds with strings.Join
JournalLog(tag, updateName, rolloutName) ==
    tag \o <<"|">> \o updateName \o <<"|">> \o rolloutName

\* RolloutsFsHandle.AppendJournal
AppendJournal(f, isProd, content, now) ==
    appendFile(f, UpdatesBranchDir(isProd),
               rolloutJournalFile \o partialFileSuffix, content, now)

\* a reader of the journal still being appended to
ReadJournalName_Partial == rolloutJournalFile \o partialFileSuffix

\* the file RolloutsFsHandle.ReadJournal opens
ReadJournalName == rolloutJournalFile

\* Storage.ReadRolloutJournal: the lines of the journal, each split on "|";
\* a missing journal yields nothing (the file is scanned once: lines is bound
\* to the value of ScanLines)
ReadRolloutJournal(f, isProd) ==
    LET dir == UpdatesBranchDir(isProd) IN
    IF ~FileExists(f, dir, ReadJournalName) THEN <<>>
    ELSE CHOOSE parsed \in
             {[i \in 1..Len(lines) |-> Split(lines[i], "|")] :
                 lines \in {ScanLines(FileContent(f, dir, ReadJournalName))}} :
             TRUE

\* the records of a journal file that parse to (tag, update, rollout)
JournalEntries(f, isProd, name) ==
    LET dir == UpdatesBranchDir(isProd) IN
    IF ~FileExists(f, dir, name) THEN {}
    ELSE LET lines == ScanLines(FileContent(f, dir, name))
         IN  {Split(lines[i], "|") : i \in 1..Len(lines)}

\* rolloutPut without its existence check
rolloutPutCheck_NoConflict(f, req, isProd) ==
    IF ~req.body.valid THEN 400
    ELSE IF req.body.uuids = {} /\ req.body.groups = {} THEN 400
    ELSE IF req.body.effect # {} THEN 400
    ELSE IF ~UpdateExists(f, req.tag, req.update, isProd) THEN 404
    ELSE 0

\* rolloutPut, from the bind to the existence check: the status of an early
\* return, 0 when the handler goes on to write
rolloutPutCheck(f, req, isProd) ==
    IF ~req.body.valid THEN 400
    ELSE IF req.body.uuids = {} /\ req.body.groups = {} THEN 400
    ELSE IF req.body.effect # {} THEN 400
    ELSE IF ~UpdateExists(f, req.tag, req.update, isProd) THEN 404
    ELSE IF GetRollout(f, req.tag, req.update, req.name, isProd).err = "" THEN 409
    ELSE IF GetRollout(f, req.tag, req.update, req.name, isProd).err # "notexist"
    THEN 500
    ELSE 0

(***************************************************************************)
(* The branch whose requests and watchdog are modelled: ci (isProd=false). *)
(* The prod branch runs the same code over updates/prod and the devices    *)
(* with is_prod=true.                                                      *)
(***************************************************************************)
IsProd == FALSE

PathOf(req) == <<req.tag, req.update, req.name>>

(***************************************************************************)
(* handlers.rolloutPut, one action per suspension point                    *)
(***************************************************************************)
hUnchanged(h) == UNCHANGED <<cPc, cReq, wdPc, wdFirstRun, wdSuccess, wdLines,
                             wdLine, wdRollout, wdRepeat, clock, up, nOps,
                             catalogVars>>

\* bind, validate, ListUpdates, GetRollout: early return or go on to write
PutBegin(h, req) ==
    /\ hPc[h] = "idle"
    /\ hReq' = [hReq EXCEPT ![h] = req]
    /\ hEff' = [hEff EXCEPT ![h] = {}]
    /\ LET status == rolloutPutCheck(fs, req, IsProd) IN
       /\ hResp' = [hResp EXCEPT ![h] = status]
       /\ hPc' = [hPc EXCEPT ![h] = IF status = 0 THEN "save1" ELSE "done"]
    /\ UNCHANGED <<fs, devices, catalogDone, nFail>>
    /\ hUnchanged(h)

\* the rollout as the handler holds it: Commit is whatever the body carried
PutRollout(h) ==
    Rollout(hReq[h].body.uuids, hReq[h].body.groups, hEff[h],
            hReq[h].body.commit)

\* SaveRollout -> writeFile: content written to <rollout>..part
PutWritePartial(h) ==
    /\ hPc[h] \in {"save1", "save2"}
    /\ fs' = WritePartial(fs, RolloutsDir(IsProd, hReq[h].tag, hReq[h].update),
                          hReq[h].name, <<PutRollout(h)>>, clock)
    /\ hPc' = [hPc EXCEPT ![h] = IF hPc[h] = "save1" THEN "save1r" ELSE "save2r"]
    /\ UNCHANGED <<devices, hReq, hEff, hResp, catalogDone, nFail>>
    /\ hUnchanged(h)

\* SaveRollout -> writeFile: os.Rename(partial, path); the rename fails when
\* another writer of the same rollout has renamed the shared partial away
PutRename(h) ==
    /\ hPc[h] \in {"save1r", "save2r"}
    /\ LET dir == RolloutsDir(IsProd, hReq[h].tag, hReq[h].update) IN
       IF FileExists(fs, dir, hReq[h].name \o partialFileSuffix)
       THEN /\ fs' = RenamePartial(fs, dir, hReq[h].name)
            /\ hPc' = [hPc EXCEPT ![h] =
                          IF hPc[h] = "save1r" THEN "update" ELSE "done"]
            /\ hResp' = [hResp EXCEPT ![h] =
                          IF hPc[h] = "save1r" THEN 0 ELSE 202]
       ELSE /\ fs' = fs
            /\ hPc' = [hPc EXCEPT ![h] = "done"]
            /\ hResp' = [hResp EXCEPT ![h] = 500]
    /\ UNCHANGED <<devices, hReq, hEff, catalogDone, nFail>>
    /\ hUnchanged(h)

\* rollout.Effect, err = SetUpdateName(...)
PutSetUpdateName(h) ==
    /\ hPc[h] = "update"
    /\ devices' = SetUpdateName(devices, hReq[h].tag, hReq[h].update, IsProd,
                                hReq[h].body.uuids, hReq[h].body.groups)
    /\ hEff' = [hEff EXCEPT ![h] =
                   SetUpdateNameUuids(devices, hReq[h].tag, hReq[h].update,
                       IsProd, hReq[h].body.uuids, hReq[h].body.groups)]
    /\ catalogDone' = catalogDone \cup {PathOf(hReq[h])}
    /\ hPc' = [hPc EXCEPT ![h] = "save2"]
    /\ UNCHANGED <<fs, hReq, hResp, nFail>>
    /\ hUnchanged(h)

\* an I/O or catalog error at the step in hand: the handler answers 500.
\* A failed write leaves nothing or a cut-short partial; a failed rename
\* leaves the partial; a failed UPDATE changes no row.
PutFail(h) ==
    /\ hPc[h] \in {"save1", "save1r", "update", "save2", "save2r"}
    /\ nFail < MaxFaults
    /\ nFail' = nFail + 1
    /\ \/ fs' = fs
       \/ /\ hPc[h] \in {"save1", "save2"}
          /\ fs' = WritePartialCut(fs,
                       RolloutsDir(IsProd, hReq[h].tag, hReq[h].update),
                       hReq[h].name, clock)
    /\ hPc' = [hPc EXCEPT ![h] = "done"]
    /\ hResp' = [hResp EXCEPT ![h] = 500]
    /\ UNCHANGED <<devices, hReq, hEff, catalogDone>>
    /\ hUnchanged(h)

\* the response is out; the goroutine serves the next request
PutReturn(h) ==
    /\ hPc[h] = "done"
    /\ hPc' = [hPc EXCEPT ![h] = "idle"]
    /\ hReq' = [hReq EXCEPT ![h] = NoRequest]
    /\ hEff' = [hEff EXCEPT ![h] = {}]
    /\ hResp' = [hResp EXCEPT ![h] = 0]
    /\ UNCHANGED <<fs, devices, catalogDone, nFail>>
    /\ hUnchanged(h)

(***************************************************************************)
(* Storage.CreateRollout called directly, as the daemon test does: for a   *)
(* rollout that is not on disk, with committed=false                       *)
(***************************************************************************)
cUnchanged == UNCHANGED <<devices, hPc, hReq, hEff, hResp, wdPc, wdFirstRun,
                          wdSuccess, wdLines, wdLine, wdRollout, wdRepeat,
                          catalogDone, clock, up, nOps, catalogVars>>

\* h.AppendJournal(log)
CreateAppendJournal(req) ==
    /\ cPc = "idle"
    /\ UpdateExists(fs, req.tag, req.update, IsProd)
    /\ GetRollout(fs, req.tag, req.update, req.name, IsProd).err = "notexist"
    /\ cReq' = req
    /\ fs' = AppendJournal(fs, IsProd,
                           JournalLog(req.tag, req.update, req.name), clock)
    /\ cPc' = "write"
    /\ UNCHANGED nFail
    /\ cUnchanged

\* h.WriteFile(...): content written to <rollout>..part
CreateWritePartial ==
    /\ cPc = "write"
    /\ fs' = WritePartial(fs, RolloutsDir(IsProd, cReq.tag, cReq.update),
                          cReq.name,
                          <<Rollout(cReq.body.uuids, cReq.body.groups, {},
                                    cReq.body.commit)>>, clock)
    /\ cPc' = "rename"
    /\ UNCHANGED <<cReq, nFail>>
    /\ cUnchanged

\* h.WriteFile(...): os.Rename(partial, path), then return
CreateRename ==
    /\ cPc = "rename"
    /\ LET dir == RolloutsDir(IsProd, cReq.tag, cReq.update) IN
       fs' = IF FileExists(fs, dir, cReq.name \o partialFileSuffix)
             THEN RenamePartial(fs, dir, cReq.name)
             ELSE fs
    /\ cPc' = "idle"
    /\ cReq' = NoRequest
    /\ UNCHANGED nFail
    /\ cUnchanged

\* the file write fails: CreateRollout returns the error, the journal line stays
CreateFail ==
    /\ cPc \in {"write", "rename"}
    /\ nFail < MaxFaults
    /\ nFail' = nFail + 1
    /\ \/ fs' = fs
       \/ /\ cPc = "write"
          /\ fs' = WritePartialCut(fs, RolloutsDir(IsProd, cReq.tag, cReq.update),
                                   cReq.name, clock)
    /\ cPc' = "idle"
    /\ cReq' = NoRequest
    /\ cUnchanged

(***************************************************************************)
(* daemons.rolloutWatchdog(isProd) and daemons.processJournal              *)
(***************************************************************************)
wUnchanged == UNCHANGED <<hPc, hReq, hEff, hResp, cPc, cReq, clock, up, nOps,
                          catalogVars>>

\* Shutdown is sending on the stop channel of this watchdog, the second of
\* d.stops: rolloutWatchdog(true) is started first, rolloutWatchdog(false) next
StopSent == sd.pc = "send2"

\* processJournal begins a pass, at startup or when time.After fires with
\* nothing on the stop channel: success = true, the journal is opened
WdReadJournal ==
    /\ wdPc = "start"
    /\ wdFirstRun \/ ~StopSent
    /\ wdSuccess' = TRUE
    /\ wdLines' = ReadRolloutJournal(fs, IsProd)
    /\ wdPc' = "lines"
    /\ UNCHANGED <<fs, devices, wdFirstRun, wdLine, wdRollout, wdRepeat,
                   catalogDone, nFail>>
    /\ wUnchanged

\* one iteration of the loop over the journal, up to the call of CommitRollout
WdLine ==
    /\ wdPc = "lines"
    /\ wdLines # <<>>
    /\ LET parts == Head(wdLines) IN
       IF Len(parts) # 3
       THEN \* corrupted journal file line: critical, the pass stops
            /\ wdSuccess' = FALSE
            /\ wdLines' = <<>>
            /\ UNCHANGED <<wdPc, wdLine, wdRollout>>
       ELSE LET got == GetRollout(fs, parts[1], parts[2], parts[3], IsProd) IN
            /\ wdLines' = Tail(wdLines)
            /\ IF got.err = "notexist"
               THEN UNCHANGED <<wdPc, wdSuccess, wdLine, wdRollout>>
               ELSE IF got.err # ""
               THEN /\ wdSuccess' = FALSE
                    /\ UNCHANGED <<wdPc, wdLine, wdRollout>>
               ELSE IF ~got.rollout.commit
               THEN /\ wdPc' = "commit"
                    /\ wdLine' = parts
                    /\ wdRollout' = got.rollout
                    /\ UNCHANGED wdSuccess
               ELSE UNCHANGED <<wdPc, wdSuccess, wdLine, wdRollout>>
    /\ UNCHANGED <<fs, devices, wdFirstRun, wdRepeat, catalogDone, nFail>>
    /\ wUnchanged

\* CommitRollout: rollout.Effect = SetUpdateName(...); rollout.Commit = true
WdCommitSetUpdateName ==
    /\ wdPc = "commit"
    /\ devices' = SetUpdateName(devices, wdLine[1], wdLine[2], IsProd,
                                wdRollout.uuids, wdRollout.groups)
    /\ wdRollout' = CommitRollout(devices, wdLine[1], wdLine[2], IsProd, wdRollout)
    /\ wdRepeat' = (wdLine \in catalogDone)
    /\ catalogDone' = catalogDone \cup {wdLine}
    /\ wdPc' = "save"
    /\ UNCHANGED <<fs, wdFirstRun, wdSuccess, wdLines, wdLine, nFail>>
    /\ wUnchanged

\* CommitRollout -> SaveRollout -> writeFile: content written to the partial
WdWritePartial ==
    /\ wdPc = "save"
    /\ fs' = WritePartial(fs, RolloutsDir(IsProd, wdLine[1], wdLine[2]),
                          wdLine[3], <<wdRollout>>, clock)
    /\ wdPc' = "rename"
    /\ UNCHANGED <<devices, wdFirstRun, wdSuccess, wdLines, wdLine, wdRollout,
                   wdRepeat, catalogDone, nFail>>
    /\ wUnchanged

\* CommitRollout -> SaveRollout -> writeFile: os.Rename(partial, path)
WdRename ==
    /\ wdPc = "rename"
    /\ LET dir == RolloutsDir(IsProd, wdLine[1], wdLine[2]) IN
       IF FileExists(fs, dir, wdLine[3] \o partialFileSuffix)
       THEN fs' = RenamePartial(fs, dir, wdLine[3]) /\ UNCHANGED wdSuccess
       ELSE fs' = fs /\ wdSuccess' = FALSE
    /\ wdPc' = "lines"
    /\ wdLine' = <<>>
    /\ wdRollout' = NoRollout
    /\ wdRepeat' = FALSE
    /\ UNCHANGED <<devices, wdFirstRun, wdLines, catalogDone, nFail>>
    /\ wUnchanged

\* a failed commit that breaks out of the loop over the journal
WdCommitFail_Abort ==
    /\ wdPc \in {"commit", "save", "rename"}
    /\ nFail < MaxFaults
    /\ nFail' = nFail + 1
    /\ \/ fs' = fs
       \/ /\ wdPc = "save"
          /\ fs' = WritePartialCut(fs, RolloutsDir(IsProd, wdLine[1], wdLine[2]),
                                   wdLine[3], clock)
    /\ wdSuccess' = FALSE
    /\ wdPc' = "lines"
    /\ wdLines' = <<>>
    /\ wdLine' = <<>>
    /\ wdRollout' = NoRollout
    /\ wdRepeat' = FALSE
    /\ UNCHANGED <<devices, wdFirstRun, catalogDone>>
    /\ wUnchanged

\* CommitRollout fails (catalog error, write error, rename error): the error
\* is logged, success = false and the loop goes on with the next line
WdCommitFail ==
    /\ wdPc \in {"commit", "save", "rename"}
    /\ nFail < MaxFaults
    /\ nFail' = nFail + 1
    /\ \/ fs' = fs
       \/ /\ wdPc = "save"
          /\ fs' = WritePartialCut(fs, RolloutsDir(IsProd, wdLine[1], wdLine[2]),
                                   wdLine[3], clock)
    /\ wdSuccess' = FALSE
    /\ wdPc' = "lines"
    /\ wdLine' = <<>>
    /\ wdRollout' = NoRollout
    /\ wdRepeat' = FALSE
    /\ UNCHANGED <<devices, wdFirstRun, wdLines, catalogDone>>
    /\ wUnchanged

\* RolloutsFsHandle.RolloverJournal: rename the partial journal over the
\* journal; a missing partial is not an error
RolloverJournal(f, isProd) ==
    LET dir == UpdatesBranchDir(isProd) IN
    IF FileExists(f, dir, rolloutJournalFile \o partialFileSuffix)
    THEN RenameEntry(f, dir, rolloutJournalFile \o partialFileSuffix,
                     rolloutJournalFile)
    ELSE f

WdEndPass_IgnoreSuccess ==
    /\ wdPc = "lines"
    /\ wdLines = <<>>
    /\ wdFirstRun' = FALSE
    /\ fs' = IF ~wdFirstRun THEN RolloverJournal(fs, IsProd) ELSE fs
    /\ wdPc' = "start"
    /\ UNCHANGED <<devices, wdSuccess, wdLines, wdLine, wdRollout, wdRepeat,
                   catalogDone, nFail>>
    /\ wUnchanged

WdEndPass_OnFirstRun ==
    /\ wdPc = "lines"
    /\ wdLines = <<>>
    /\ wdFirstRun' = FALSE
    /\ fs' = IF wdSuccess THEN RolloverJournal(fs, IsProd) ELSE fs
    /\ wdPc' = "start"
    /\ UNCHANGED <<devices, wdSuccess, wdLines, wdLine, wdRollout, wdRepeat,
                   catalogDone, nFail>>
    /\ wUnchanged

\* the pass is over: no rollover on the first run, a rollover after a fully
\* successful later pass; then the watchdog sleeps until the next tick
WdEndPass ==
    /\ wdPc = "lines"
    /\ wdLines = <<>>
    /\ wdFirstRun' = FALSE
    /\ fs' = IF ~wdFirstRun /\ wdSuccess THEN RolloverJournal(fs, IsProd) ELSE fs
    /\ wdPc' = "start"
    /\ UNCHANGED <<devices, wdSuccess, wdLines, wdLine, wdRollout, wdRepeat,
                   catalogDone, nFail>>
    /\ wUnchanged

(***************************************************************************)
(* The process dies and is started again: requests in flight are gone, the *)
(* watchdog starts over with firstRun = true; disk and catalog stay        *)
(***************************************************************************)
Crash ==
    /\ nFail < MaxFaults
    /\ nFail' = nFail + 1
    /\ hPc' = [h \in Handlers |-> "idle"]
    /\ hReq' = [h \in Handlers |-> NoRequest]
    /\ hEff' = [h \in Handlers |-> {}]
    /\ hResp' = [h \in Handlers |-> 0]
    /\ cPc' = "idle"
    /\ cReq' = NoRequest
    /\ wdPc' = "start"
    /\ wdFirstRun' = TRUE
    /\ wdSuccess' = TRUE
    /\ wdLines' = <<>>
    /\ wdLine' = <<>>
    /\ wdRollout' = NoRollout
    /\ wdRepeat' = FALSE
    /\ up' = [u \in Uploaders |-> NoCall]
    /\ sd' = NoSd
    /\ UNCHANGED <<fs, clock, devices, catalogDone, nOps, gw, op, users, tokens,
                   sessions, ui, tail>>

(***************************************************************************)
(* The rollout engine                                                      *)
(***************************************************************************)
vars == <<fs, clock, devices, hPc, hReq, hEff, hResp, cPc, cReq, wdPc,
          wdFirstRun, wdSuccess, wdLines, wdLine, wdRollout, wdRepeat,
          catalogDone, nFail, up, nOps, gw, op, users, tokens, sessions,
          ui, tail, sd>>

\* no request in hand, the watchdog about to start its first pass
InitHandlers ==
    /\ hPc = [h \in Handlers |-> "idle"]
    /\ hReq = [h \in Handlers |-> NoRequest]
    /\ hEff = [h \in Handlers |-> {}]
    /\ hResp = [h \in Handlers |-> 0]
    /\ cPc = "idle"
    /\ cReq = NoRequest
    /\ wdPc = "start"
    /\ wdFirstRun = TRUE
    /\ wdSuccess = TRUE
    /\ wdLines = <<>>
    /\ wdLine = <<>>
    /\ wdRollout = NoRollout
    /\ wdRepeat = FALSE
    /\ catalogDone = {}
    /\ gw = NoGw
    /\ op = NoOp
    /\ ui = [h \in UiHandlers |-> NoUi]
    /\ tail = NoTail
    /\ sd = NoSd

\* createTables: no user, no token, no session
NoUsers ==
    /\ users = <<>>
    /\ tokens = <<>>
    /\ sessions = <<>>

InitRollouts ==
    /\ devices = InitDevices
    /\ InitHandlers
    /\ NoUsers

\* NewFs has made the top directories; nothing is journaled yet
Init ==
    /\ fs = [d \in {UpdatesBranchDir(IsProd)} |-> EmptyDir]
    /\ clock = 0
    /\ nFail = 0
    /\ up = [u \in Uploaders |-> NoCall]
    /\ nOps = 0
    /\ InitRollouts

WatchdogNext ==
    \/ WdReadJournal
    \/ WdLine
    \/ WdCommitSetUpdateName
    \/ WdWritePartial
    \/ WdRename
    \/ WdEndPass

Next ==
    \/ \E h \in OneHandler, req \in Requests : PutBegin(h, req)
    \/ \E h \in OneHandler : PutWritePartial(h)
    \/ \E h \in OneHandler : PutRename(h)
    \/ \E h \in OneHandler : PutSetUpdateName(h)
    \/ \E h \in OneHandler : PutFail(h)
    \/ \E h \in OneHandler : PutReturn(h)
    \/ \E req \in CreateRequests : CreateAppendJournal(req)
    \/ CreateWritePartial
    \/ CreateRename
    \/ CreateFail
    \/ WatchdogNext
    \/ WdCommitFail
    \/ Crash

Spec == Init /\ [][Next]_vars

(***************************************************************************)
(* Crash recovery on its own: rollouts created through                     *)
(* Storage.CreateRollout and a watchdog that keeps running (the goroutine  *)
(* of rolloutWatchdog loops until shutdown, one pass per interval).        *)
(***************************************************************************)
RecoveryNext ==
    \/ \E req \in RecoveryRequests : CreateAppendJournal(req)
    \/ CreateWritePartial
    \/ CreateRename
    \/ CreateFail
    \/ WatchdogNext
    \/ WdCommitFail
    \/ Crash

FairSpec == Init /\ [][RecoveryNext]_vars /\ WF_vars(WatchdogNext)

(***************************************************************************)
(* The device gateway's storage calls over one device directory, and       *)
(* SaveRollout over one rollout directory: one action per file-system      *)
(* call.  The clock advances where the code sleeps; requests that do not   *)
(* sleep are served within the same millisecond.                           *)
(***************************************************************************)
\* DevicesFsHandle.ListFiles
ListFiles(f, uuid, prefix) == matchFiles(f, DeviceDir(uuid), prefix)

EventsFileName(corrId) == EventsPrefix \o <<"-">> \o corrId

StatesFileName(ms) == StatesPrefix \o <<"-", ToString(ms)>>

upUnchanged == UNCHANGED <<rolloutVars, catalogVars>>

\* encoding/json on a string: a newline is written as the escape \n
JsonEscape(str) == [i \in 1..Len(str) |-> IF str[i] = "\n" THEN "\\n" ELSE str[i]]

JsonUnescape(str) == [i \in 1..Len(str) |-> IF str[i] = "\\n" THEN "\n" ELSE str[i]]

\* json.Marshal that writes strings as they are
Marshal_Raw(evt) ==
    <<"{id:", evt.id, ",correlationId:">> \o evt.correlationId \o <<"}">>

\* json.Marshal(evt) of a DeviceUpdateEvent: one JSON object on one line
Marshal(evt) ==
    <<"{id:", evt.id, ",correlationId:">> \o JsonEscape(evt.correlationId)
        \o <<"}">>

\* json.Unmarshal(line, &evt): ok is false where it returns an error
Unmarshal(line) ==
    IF /\ Len(line) >= 4
       /\ line[1] = "{id:"
       /\ line[3] = ",correlationId:"
       /\ line[Len(line)] = "}"
    THEN [ok |-> TRUE,
          evt |-> UpdateEvent(line[2],
                              JsonUnescape(SubSeq(line, 4, Len(line) - 1)))]
    ELSE [ok |-> FALSE, evt |-> UpdateEvent("", <<>>)]

\* Device.Events: the file events-<updateId> split at newlines, empty lines
\* skipped, each line unmarshalled; ok is false where it returns an error
Events(f, uuid, updateId) ==
    LET name == EventsFileName(updateId) IN
    IF ~FileExists(f, DeviceDir(uuid), name)
    THEN [ok |-> FALSE, events |-> <<>>]
    ELSE LET parsed == CHOOSE q \in
                 {[i \in 1..Len(nonEmpty) |-> Unmarshal(nonEmpty[i])] :
                     nonEmpty \in {SelectSeq(Split(FileContent(f, DeviceDir(uuid), name), "\n"),
                                             LAMBDA l : Len(l) > 0)}} : TRUE
         IN  [ok     |-> \A i \in 1..Len(parsed) : parsed[i].ok,
              events |-> [i \in 1..Len(parsed) |-> parsed[i].evt]]

\* handlers.eventsUpload up to the call of ProcessEvents: events without id
\* or correlation id are dropped; with no valid event left nothing is called
validEventsCall(uuid, batch) ==
    LET Valid(e) == e.id # "" /\ Len(e.correlationId) > 0
        validEvents == SelectSeq(batch, Valid)
    IN  IF validEvents = <<>> THEN NoCall
        ELSE [NoCall EXCEPT !.pc = "append",
                            !.dir = DeviceDir(uuid),
                            !.batch = batch,
                            !.events = validEvents,
                            !.prefix = EventsPrefix,
                            !.max = maxEvents]

\* handlers.eventsUpload: with no valid event left the answer is 200 and
\* nothing is stored
EventsUpload(u, batch) ==
    /\ up[u].pc = "idle"
    /\ nOps < MaxOps
    /\ nOps' = nOps + 1
    /\ up' = [up EXCEPT ![u] = validEventsCall(Dev, batch)]
    /\ UNCHANGED <<fs, clock, nFail>>
    /\ upUnchanged

\* Device.ProcessEvents, one iteration: sleep 4 ms when the correlation id
\* changes, then AppendFile(events-<corrId>, line)
ProcessEventsAppend(u) ==
    /\ up[u].pc = "append"
    /\ LET evt == Head(up[u].events)
           now == IF up[u].corr # <<>> /\ up[u].corr # evt.correlationId
                  THEN clock + 4 ELSE clock
       IN  /\ clock' = now
           /\ fs' = appendFile(fs, up[u].dir, EventsFileName(evt.correlationId),
                               Marshal(evt) \o <<"\n">>, now)
           /\ up' = [up EXCEPT ![u].corr = evt.correlationId,
                               ![u].events = Tail(@),
                               ![u].pc = IF Tail(up[u].events) = <<>>
                                         THEN "list" ELSE "append"]
    /\ UNCHANGED <<nOps, nFail>>
    /\ upUnchanged

\* Device.SaveAppsStates up to WriteFile: sleep 4 ms, name the file after now
SaveAppsStates(u, content) ==
    /\ up[u].pc = "idle"
    /\ nOps < MaxOps
    /\ nOps' = nOps + 1
    /\ clock' = clock + 4
    /\ up' = [up EXCEPT ![u] =
                 [NoCall EXCEPT !.pc = "write",
                                !.dir = DeviceDir(Dev),
                                !.name = StatesFileName(clock'),
                                !.content = <<content>>,
                                !.prefix = StatesPrefix,
                                !.max = maxStates]]
    /\ UNCHANGED <<fs, nFail>>
    /\ upUnchanged

\* Device.PutFile: an inventory file, no rollover
PutFile(u, name, content) ==
    /\ up[u].pc = "idle"
    /\ nOps < MaxOps
    /\ nOps' = nOps + 1
    /\ up' = [up EXCEPT ![u] =
                 [NoCall EXCEPT !.pc = "write",
                                !.dir = DeviceDir(Dev),
                                !.name = name,
                                !.content = <<content>>]]
    /\ UNCHANGED <<fs, clock, nFail>>
    /\ upUnchanged

\* Storage.SaveRollout: UpdatesFsHandle.WriteFile into the rollouts directory
SaveRollout(u, tag, updateName, rolloutName, rollout) ==
    /\ up[u].pc = "idle"
    /\ nOps < MaxOps
    /\ nOps' = nOps + 1
    /\ up' = [up EXCEPT ![u] =
                 [NoCall EXCEPT !.pc = "write",
                                !.dir = RolloutsDir(IsProd, tag, updateName),
                                !.name = rolloutName,
                                !.content = <<rollout>>]]
    /\ UNCHANGED <<fs, clock, nFail>>
    /\ upUnchanged

\* baseFsHandle.writeFile: the content goes to name..part
writeFileWrite(u) ==
    /\ up[u].pc = "write"
    /\ fs' = WritePartial(fs, up[u].dir, up[u].name, up[u].content, clock)
    /\ up' = [up EXCEPT ![u].pc = "rename"]
    /\ UNCHANGED <<clock, nOps, nFail>>
    /\ upUnchanged

\* baseFsHandle.writeFile: os.Rename(partial, path); a rollover follows for
\* apps-states files
writeFileRename(u) ==
    /\ up[u].pc = "rename"
    /\ IF FileExists(fs, up[u].dir, up[u].name \o partialFileSuffix)
       THEN /\ fs' = RenamePartial(fs, up[u].dir, up[u].name)
            /\ up' = [up EXCEPT ![u] =
                         IF up[u].prefix = <<>> THEN NoCall
                         ELSE [up[u] EXCEPT !.pc = "list"]]
       ELSE /\ fs' = fs
            /\ up' = [up EXCEPT ![u] = NoCall]
    /\ UNCHANGED <<clock, nOps, nFail>>
    /\ upUnchanged

\* baseFsHandle.rolloverFiles: matchFiles(prefix, true); the len(names)-max
\* oldest names are to be removed
rolloverFilesList(u) ==
    /\ up[u].pc = "list"
    /\ LET names == matchFiles(fs, up[u].dir, up[u].prefix) IN
       \E oldest \in OldestFirst(fs, up[u].dir, names,
                                 Cardinality(names) - up[u].max) :
           up' = [up EXCEPT ![u] =
                     IF oldest = <<>> THEN NoCall
                     ELSE [up[u] EXCEPT !.pc = "remove", !.remove = oldest]]
    /\ UNCHANGED <<fs, clock, nOps, nFail>>
    /\ upUnchanged

\* baseFsHandle.rolloverFiles, one iteration: os.Remove(names[i]); an error
\* (the file is gone) ends the loop
rolloverFilesRemove(u) ==
    /\ up[u].pc = "remove"
    /\ LET name == Head(up[u].remove) IN
       IF FileExists(fs, up[u].dir, name)
       THEN /\ fs' = RemoveEntry(fs, up[u].dir, name)
            /\ up' = [up EXCEPT ![u] =
                         IF Tail(up[u].remove) = <<>> THEN NoCall
                         ELSE [up[u] EXCEPT !.remove = Tail(@)]]
       ELSE /\ fs' = fs
            /\ up' = [up EXCEPT ![u] = NoCall]
    /\ UNCHANGED <<clock, nOps, nFail>>
    /\ upUnchanged

\* the file-system call in hand fails: the storage call returns the error.
\* A failed write may leave a cut-short partial.
FileFail(u) ==
    /\ up[u].pc \in {"append", "write", "rename", "list", "remove"}
    /\ nFail < MaxFaults
    /\ nFail' = nFail + 1
    /\ \/ fs' = fs
       \/ /\ up[u].pc = "write"
          /\ fs' = WritePartialCut(fs, up[u].dir, up[u].name, clock)
    /\ up' = [up EXCEPT ![u] = NoCall]
    /\ UNCHANGED <<clock, nOps>>
    /\ upUnchanged

\* the device directory after maxEvents-1 single-event uploads and
\* maxStates-1 apps-states uploads, one per millisecond
StoredFiles ==
    [n \in {EventsFileName(CorrId(i)) : i \in 1..(maxEvents - 1)}
           \cup {StatesFileName(i) : i \in 1..(maxStates - 1)} |->
        LET i == CHOOSE k \in 1..maxEvents :
                     n \in {EventsFileName(CorrId(k)), StatesFileName(k)}
        IN  [content |-> IF HasPrefix(n, EventsPrefix)
                         THEN Marshal(UpdateEvent("1", CorrId(i))) \o <<"\n">>
                         ELSE <<"states">>,
             mtime   |-> i]]

FsInit ==
    /\ fs = [d \in {UpdatesBranchDir(IsProd), DeviceDir(Dev)} |->
                IF d = DeviceDir(Dev) THEN StoredFiles ELSE EmptyDir]
    /\ clock = maxEvents
    /\ nFail = 0
    /\ up = [u \in Uploaders |-> NoCall]
    /\ nOps = 0
    /\ InitRollouts

FsNext ==
    \/ \E u \in OneUploader, batch \in EventBatches : EventsUpload(u, batch)
    \/ \E u \in OneUploader : ProcessEventsAppend(u)
    \/ \E u \in OneUploader : SaveAppsStates(u, "states")
    \/ \E u \in OneUploader : PutFile(u, AktomlFile, "toml")
    \/ \E u \in OneUploader :
           SaveRollout(u, Tag1, Update1, Roll1, Rollout({"ci1"}, {}, {}, FALSE))
    \/ \E u \in OneUploader : writeFileWrite(u)
    \/ \E u \in OneUploader : writeFileRename(u)
    \/ \E u \in OneUploader : rolloverFilesList(u)
    \/ \E u \in OneUploader : rolloverFilesRemove(u)
    \/ \E u \in OneUploader : FileFail(u)

FsSpec == FsInit /\ [][FsNext]_vars

(***************************************************************************)
(* Observations used by the properties                                     *)
(***************************************************************************)
\* every rollout path a request of the model can name
RolloutPaths == {PathOf(r) : r \in Requests \cup RecoveryRequests}

\* what a reader of the rollout file gets
ReadRollout(f, path) == GetRollout(f, path[1], path[2], path[3], IsProd)

\* s holds sub as a run of consecutive tokens
Contains(s, sub) ==
    \E i \in 1..(Len(s) - Len(sub) + 1) : SubSeq(s, i, i + Len(sub) - 1) = sub

\* the line CreateRollout appends for path is in a journal file of the branch
Journaled(f, path) ==
    \E name \in {rolloutJournalFile, rolloutJournalFile \o partialFileSuffix} :
        /\ FileExists(f, UpdatesBranchDir(IsProd), name)
        /\ Contains(FileContent(f, UpdatesBranchDir(IsProd), name),
                    JournalLog(path[1], path[2], path[3]))

RolloutOnDisk(f, path) == ReadRollout(f, path).err # "notexist"

Committed(f, path) ==
    /\ ReadRollout(f, path).err = ""
    /\ ReadRollout(f, path).rollout.commit

\* the devices a rollout is meant to reach: not deleted, of the rollout's
\* tag and branch, named by uuid or member of a named group
MatchingDevices(devs, tag, isProd, uuids, groups) ==
    {u \in DOMAIN devs :
        /\ ~devs[u].deleted
        /\ devs[u].tag = tag
        /\ devs[u].is_prod = isProd
        /\ (u \in uuids \/ devs[u].group_name \in groups)}

(***************************************************************************)
(* C1: a rollout file carries committed=true only after the catalog update *)
(* of that rollout has succeeded.                                          *)
(***************************************************************************)
C1_CommittedOnlyAfterCatalogUpdate ==
    \A p \in RolloutPaths : Committed(fs, p) => p \in catalogDone

(***************************************************************************)
(* C2: every rollout whose Phase A completed (its line is in the branch    *)
(* journal and its file reads committed=false) is eventually committed,    *)
(* with its catalog update done, as long as the watchdog keeps running.    *)
(***************************************************************************)
C2_IntentEventuallyCommitted ==
    \A p \in RolloutPaths :
        (/\ Journaled(fs, p)
         /\ ReadRollout(fs, p).err = ""
         /\ ~ReadRollout(fs, p).rollout.commit)
            ~> (Committed(fs, p) /\ p \in catalogDone)

(***************************************************************************)
(* C3: when rolloutPut has answered 202, the rollout file reads            *)
(* committed=true and its effective-uuids are exactly the non-deleted      *)
(* devices of the rollout's tag and branch named by uuid or by group.      *)
(***************************************************************************)
C3_AcceptedPutIsCommitted ==
    \A h \in Handlers :
        (hPc[h] = "done" /\ hResp[h] = 202) =>
            LET got == ReadRollout(fs, PathOf(hReq[h])) IN
            /\ got.err = ""
            /\ got.rollout.commit
            /\ got.rollout.effect =
                   MatchingDevices(devices, hReq[h].tag, IsProd,
                                   hReq[h].body.uuids, hReq[h].body.groups)

(***************************************************************************)
(* C4: rollout commit is idempotent.  Whenever the watchdog runs Phase B   *)
(* (the catalog update of CommitRollout), running Phase B once more over   *)
(* the rollout it saves and the catalog it left returns the same           *)
(* effective-uuids, saves the same rollout document and leaves the same    *)
(* catalog; so the repeat after a failed marker write gives the same file. *)
(***************************************************************************)
C4_CommitIdempotent ==
    [][(wdPc = "commit" /\ wdPc' = "save") =>
          /\ CommitRollout(devices', wdLine[1], wdLine[2], IsProd, wdRollout')
                 = wdRollout'
          /\ SetUpdateNameUuids(devices', wdLine[1], wdLine[2], IsProd,
                                wdRollout'.uuids, wdRollout'.groups)
                 = wdRollout'.effect
          /\ SetUpdateName(devices', wdLine[1], wdLine[2], IsProd,
                           wdRollout'.uuids, wdRollout'.groups) = devices'
          /\ (wdRepeat' /\ devices' = devices) =>
                 wdRollout'.effect = {u \in DOMAIN devices :
                     /\ devices[u].update_name = wdLine[2]
                     /\ stmtDeviceSetUpdate(devices, u, wdLine[2], wdLine[1],
                            IsProd, wdRollout.uuids, wdRollout.groups)}]_vars

\* the watchdog has run the catalog update of a rollout a second time, after
\* the first commit failed to write its marker, and saved a non-empty effect
C4_Witness ==
    /\ wdPc = "rename"
    /\ wdRepeat
    /\ nFail > 0
    /\ wdRollout.effect # {}
    /\ wdRollout.commit

(***************************************************************************)
(* C5: a well-formed PUT for a rollout whose file is on disk is answered   *)
(* with 409 and has no effect: no file (rollout or journal) and no device  *)
(* row changes, at the existence test or at any later step of the request. *)
(***************************************************************************)
C5_ExistingRolloutRejected ==
    [][\A h \in Handlers :
          /\ (/\ hPc[h] = "idle" /\ hPc'[h] # "idle"
              /\ hReq'[h].body.valid
              /\ (hReq'[h].body.uuids # {} \/ hReq'[h].body.groups # {})
              /\ hReq'[h].body.effect = {}
              /\ UpdateExists(fs, hReq'[h].tag, hReq'[h].update, IsProd)
              /\ ReadRollout(fs, PathOf(hReq'[h])).err = "")
             => /\ hResp'[h] = 409
                /\ hPc'[h] = "done"
                /\ fs' = fs
                /\ devices' = devices
          /\ (hPc[h] = "done" /\ hResp[h] = 409 /\ hPc'[h] # "done")
             => /\ hPc'[h] = "idle"
                /\ fs' = fs
                /\ devices' = devices]_vars

\* a PUT has been answered 409 while the rollout it names is on disk
C5_Witness ==
    \E h \in Handlers :
        /\ hPc[h] = "done"
        /\ hResp[h] = 409
        /\ ReadRollout(fs, PathOf(hReq[h])).err = ""

(***************************************************************************)
(* C6: a rollout only moves forward: a rollout file that reads             *)
(* committed=true never reads committed=false or goes missing afterwards.  *)
(***************************************************************************)
C6_RolloutOnlyMovesForward ==
    [][\A p \in RolloutPaths : Committed(fs, p) => Committed(fs', p)]_vars

(***************************************************************************)
(* C7: a rollout commit (by the PUT handler or by the watchdog) changes    *)
(* update_name, and nothing else, only on the devices it returns as        *)
(* effective-uuids; these are among uuids and the members of groups, of    *)
(* the rollout's tag and branch.  No other step changes a device.          *)
(***************************************************************************)
C7_CommitFrame ==
    [][LET Frame(eff, tag, updateName, uuids, groups) ==
               /\ \A u \in DOMAIN devices \ eff : devices'[u] = devices[u]
               /\ \A u \in eff \cap DOMAIN devices :
                      devices'[u] = [devices[u] EXCEPT !.update_name = updateName]
               /\ eff \subseteq
                      {u \in DOMAIN devices :
                          /\ (u \in uuids \/ devices[u].group_name \in groups)
                          /\ devices[u].tag = tag
                          /\ devices[u].is_prod = IsProd}
           PutCommits(h) == hPc[h] = "update" /\ hPc'[h] = "save2"
           WdCommits == wdPc = "commit" /\ wdPc' = "save"
       IN  /\ \A h \in Handlers :
                  PutCommits(h) =>
                      Frame(hEff'[h], hReq[h].tag, hReq[h].update,
                            hReq[h].body.uuids, hReq[h].body.groups)
           /\ WdCommits =>
                  Frame(wdRollout'.effect, wdLine[1], wdLine[2],
                        wdRollout.uuids, wdRollout.groups)
           /\ (~WdCommits /\ \A h \in Handlers : ~PutCommits(h))
                  => devices' = devices]_vars

\* a commit has returned some but not all of the devices the rollout names:
\* ci1 was updated, ci3 (other tag) and prod1 (other branch) were not
C7_Witness ==
    \E h \in Handlers :
        /\ hPc[h] = "save2"
        /\ "ci1" \in hEff[h]
        /\ {"ci3", "prod1"} \subseteq hReq[h].body.uuids \ hEff[h]
        /\ devices["ci1"].update_name = hReq[h].update
        /\ devices["ci3"].update_name = <<>>
        /\ devices["prod1"].update_name = <<>>

(***************************************************************************)
(* C8 (as stated): when rollouts.journal..part is renamed to               *)
(* rollouts.journal, the rollouts journaled in it are already committed.   *)
(***************************************************************************)
C8_CommitBeforeRename ==
    [][LET dir == UpdatesBranchDir(IsProd)
           part == rolloutJournalFile \o partialFileSuffix
       IN  (FileExists(fs, dir, part) /\ ~FileExists(fs', dir, part)) =>
               \A e \in JournalEntries(fs, IsProd, part) :
                   (Len(e) = 3 /\ RolloutOnDisk(fs, e)) => Committed(fs, e)]_vars

(***************************************************************************)
(* C8 (amended): the watchdog commits a rollout only when its line is in   *)
(* rollouts.journal, that is after the partial journal that held the line  *)
(* has been renamed; it never commits from rollouts.journal..part.         *)
(***************************************************************************)
C8_RenameBeforeCommit ==
    [][(wdPc = "commit" /\ wdPc' = "save") =>
          wdLine \in JournalEntries(fs, IsProd, rolloutJournalFile)]_vars

\* the watchdog is committing a journaled rollout: the partial journal has
\* been renamed away, the rollout file on disk is still uncommitted
C8_Witness ==
    /\ wdPc = "save"
    /\ wdRollout.commit
    /\ wdLine \in JournalEntries(fs, IsProd, rolloutJournalFile)
    /\ ~FileExists(fs, UpdatesBranchDir(IsProd),
                   rolloutJournalFile \o partialFileSuffix)
    /\ ReadRollout(fs, wdLine).err = ""
    /\ ~Committed(fs, wdLine)

(***************************************************************************)
(* C9: once every upload has returned, the device directory holds at most  *)
(* 20 events-* files and at most 10 apps-states-* files (stated for the    *)
(* behaviours in which no file operation has failed).                      *)
(***************************************************************************)
C9_RolloverBound ==
    (nFail = 0 /\ \A u \in Uploaders : up[u].pc = "idle") =>
        /\ Cardinality({n \in DOMAIN DirEntries(fs, DeviceDir(Dev)) :
                           HasPrefix(n, EventsPrefix \o <<"-">>)}) <= maxEvents
        /\ Cardinality({n \in DOMAIN DirEntries(fs, DeviceDir(Dev)) :
                           HasPrefix(n, StatesPrefix \o <<"-">>)}) <= maxStates

(***************************************************************************)
(* C10: no listing returns a name ending in ..part: not the listing of a   *)
(* device's files (by any prefix), not the listing of an update's          *)
(* rollouts, not the list a rollover works from; also while an atomic      *)
(* write is in progress and after a failed one left its partial behind.    *)
(***************************************************************************)
C10_ListingsSkipPartials ==
    /\ \A prefix \in {<<>>, EventsPrefix, StatesPrefix, AktomlFile} :
           \A n \in ListFiles(fs, Dev, prefix) : ~HasSuffix(n, partialFileSuffix)
    /\ \A n \in ListRollouts(fs, Tag1, Update1, IsProd) :
           ~HasSuffix(n, partialFileSuffix)
    /\ \A u \in Uploaders : \A i \in 1..Len(up[u].remove) :
           ~HasSuffix(up[u].remove[i], partialFileSuffix)

\* listings are not empty while the device directory and the rollouts
\* directory hold partial files: one left by a failed write, one of a write
\* in progress
C10_Witness ==
    /\ nFail > 0
    /\ \E u \in Uploaders :
           /\ up[u].pc = "rename"
           /\ FileExists(fs, up[u].dir, up[u].name \o partialFileSuffix)
    /\ \E n \in DOMAIN DirEntries(fs, DeviceDir(Dev)) :
           HasSuffix(n, partialFileSuffix)
    /\ \E n \in DOMAIN DirEntries(fs, RolloutsDir(IsProd, Tag1, Update1)) :
           HasSuffix(n, partialFileSuffix)
    /\ ListFiles(fs, Dev, <<>>) # {}

(***************************************************************************)
(* C11  Event file bucketing                                               *)
(***************************************************************************)
\* the correlation ids of the events of a batch that satisfy Keep
CorrIdsOf(batch, Keep(_)) ==
    {batch[i].correlationId : i \in {j \in 1..Len(batch) : Keep(batch[j])}}

\* the step on which POST /events answers 200 after ProcessEvents: the
\* rollover that ends it returns without error
EventsAccepted(u) ==
    /\ up[u].prefix = EventsPrefix
    /\ \/ up[u].pc = "list"
       \/ up[u].pc = "remove" /\ FileExists(fs, up[u].dir, Head(up[u].remove))
    /\ up'[u].pc = "idle"
    /\ nFail' = nFail

\* events-<c> exists for every c of ids, and Device.Events reads it as
\* events of correlation id c only
BucketsOk(f, ids) ==
    \A c \in ids :
        /\ FileExists(f, DeviceDir(Dev), EventsFileName(c))
        /\ LET r == Events(f, Dev, c)
           IN  /\ r.ok
               /\ Len(r.events) > 0
               /\ \A i \in 1..Len(r.events) : r.events[i].correlationId = c

\* C11 as stated: when a batch of events is accepted, every correlation id
\* that occurs in the batch has its file events-<c>, and every line of that
\* file parses to an event of correlation id c.
C11_EveryIdOfBatchHasBucket ==
    [][\A u \in Uploaders :
          EventsAccepted(u)
              => BucketsOk(fs', CorrIdsOf(up[u].batch, LAMBDA e : TRUE))]_vars

\* C11 amended: when a batch of events is accepted, every correlation id of
\* an event of the batch that has an id and a correlation id (the events
\* eventsUpload keeps), the batch having at most maxEvents of them, has its
\* file events-<c>, and every line of that file parses to an event of
\* correlation id c.
C11_EveryValidIdHasBucket ==
    [][\A u \in Uploaders :
          LET ids == CorrIdsOf(up[u].batch,
                               LAMBDA e : e.id # "" /\ Len(e.correlationId) > 0)
          IN  (EventsAccepted(u) /\ Cardinality(ids) <= maxEvents)
                  => BucketsOk(fs', ids)]_vars

\* the batch whose correlation id holds a newline has been appended, after a
\* batch of two ids was stored, and is about to be answered
C11_Witness ==
    \E u \in Uploaders :
        /\ up[u].pc = "list"
        /\ up[u].prefix = EventsPrefix
        /\ up[u].events = <<>>
        /\ NlCorr \in CorrIdsOf(up[u].batch, LAMBDA e : e.id # "")
        /\ BucketsOk(fs, {NlCorr})
        /\ FileExists(fs, DeviceDir(Dev), EventsFileName(NewCorr2))

(***************************************************************************)
(* C12  Order of a device's updates                                        *)
(***************************************************************************)
\* Device.Updates: ListFiles(events, sortByModTime), the prefix cut off each
\* name, the list reversed; one result for every order the sort may give to
\* files whose mtime is the same millisecond
Updates(f, uuid) ==
    LET names == ListFiles(f, uuid, EventsPrefix)
        Cut(name) == SubSeq(name, Len(EventsPrefix) + 2, Len(name))
    IN  {[i \in 1..Len(sorted) |-> Cut(sorted[Len(sorted) + 1 - i])] :
            sorted \in OldestFirst(f, DeviceDir(uuid), names, Cardinality(names))}

\* C12: the list of a device's updates is newest first by the last write to
\* each bucket: once an event of correlation id c2 has been appended, every
\* answer of GET /devices/<uuid>/updates has c2 before each bucket written
\* earlier, that is, first (correlation ids whose file name ends in the
\* partial suffix, which no listing shows, are left aside).
C12_UpdatesNewestFirst ==
    [][\A u \in Uploaders :
          (/\ up[u].pc = "append"
           /\ nFail' = nFail
           /\ ~HasSuffix(Head(up[u].events).correlationId, partialFileSuffix))
              => \A r \in Updates(fs', Dev) :
                     r[1] = Head(up[u].events).correlationId]_vars

(***************************************************************************)
(* C13  Deleted devices and the operator's reads                           *)
(***************************************************************************)
\* stmtDeviceList: SELECT ... WHERE deleted=false, the uuids of a page that
\* holds every row (the handler's default LIMIT is 1000)
DevicesList(devs) == {u \in DOMAIN devs : ~devs[u].deleted}

\* Storage.DeviceGet over stmtDeviceGet (WHERE uuid = ? AND deleted=false):
\* the uuid of the row read, Null for sql.ErrNoRows
DeviceGet(devs, uuid) ==
    IF uuid \in DOMAIN devs /\ ~devs[uuid].deleted THEN uuid ELSE Null

\* handlers.handleDevice under deviceGet: the status answered
handleDevice(devs, uuid) ==
    IF DeviceGet(devs, uuid) = Null THEN 404 ELSE 200

\* handlers.rolloutGet: the effective-uuids of the rollout answered, none
\* when the answer is not 200
rolloutGet(f, path) ==
    IF ReadRollout(f, path).err = "" THEN ReadRollout(f, path).rollout.effect
    ELSE {}

\* C13: every device with deleted=false is in the operator's device listing
\* and GET /devices/<uuid> succeeds for it; a device with deleted=true is in
\* no operator read (the device listing, a rollout's effective-uuids) and
\* GET /devices/<uuid> answers 404 for it.
C13_DeletedDevicesInvisible ==
    \A u \in DOMAIN devices :
        IF ~devices[u].deleted
        THEN u \in DevicesList(devices) /\ handleDevice(devices, u) = 200
        ELSE /\ u \notin DevicesList(devices)
             /\ handleDevice(devices, u) = 404
             /\ \A p \in RolloutPaths : u \notin rolloutGet(fs, p)

(***************************************************************************)
(* The devices table under the device gateway's identity check and the     *)
(* operator's label requests.  A gateway request is authDevice, then the   *)
(* check-in of its inventory headers, then its handler.                    *)
(***************************************************************************)
Tag0 == <<>>       \* tag VARCHAR(80) DEFAULT ""

\* labels JSONB DEFAULT "{}"
NoLabels == [k \in {} |-> ""]

\* name and group_name: GENERATED ALWAYS AS (labels ->> '$.name'), NULL
\* where the label is missing
LabelColumn(row, key) ==
    IF key \in DOMAIN row.labels THEN row.labels[key] ELSE Null

\* a row of devices
DeviceRow(pubkey, deleted, isProd, lastSeen, tag, labels) ==
    [pubkey |-> pubkey, deleted |-> deleted, is_prod |-> isProd,
     last_seen |-> lastSeen, tag |-> tag, target_name |-> "",
     ostree_hash |-> "", apps |-> "", labels |-> labels]

\* the table the gateway and the operator start from: d1 and d2 have
\* checked in, d3 was named v1 before it was deleted, d4 has never connected
CatalogDevices ==
    [u \in {"d1", "d2", "d3"} |->
        DeviceRow("pub1", u = "d3", FALSE, 0, Tag1,
                  IF u = "d3" THEN [k \in {"name"} |-> "v1"] ELSE NoLabels)]

\* peer certificates: CommonName, public key, businessCategory=production
Certs == [cn : {"d1", "d3", "d4"}, pub : {"pub1"}, isProd : {FALSE}]

\* the identity check without its Deleted branch
authDevice_NoDeletedCheck(devs, cert) ==
    IF cert.cn \notin DOMAIN devs
    THEN [resp |-> 0, create |-> TRUE, next |-> TRUE]
    ELSE [resp |-> 0, create |-> FALSE, next |-> TRUE]

\* handlers.authDevice over the gateway's DeviceGet (no deleted condition):
\* the status answered (0: none yet), whether DeviceCreate is called, whether
\* next(c) is called.  A public key that differs from the stored one panics:
\* nothing is answered.
authDevice(devs, cert) ==
    IF cert.cn \notin DOMAIN devs
    THEN [resp |-> 0, create |-> TRUE, next |-> TRUE]
    ELSE IF devs[cert.cn].deleted
    THEN [resp |-> 403, create |-> FALSE, next |-> FALSE]
    ELSE IF cert.pub # devs[cert.cn].pubkey
    THEN [resp |-> 0, create |-> FALSE, next |-> FALSE]
    ELSE [resp |-> 0, create |-> FALSE, next |-> TRUE]

\* Storage.DeviceCreate: INSERT ... VALUES (uuid, pubkey, now, now, isProd, false)
DeviceCreate(devs, uuid, pubkey, isProd, now) ==
    [u \in DOMAIN devs \cup {uuid} |->
        IF u = uuid THEN DeviceRow(pubkey, FALSE, isProd, now, Tag0, NoLabels)
        ELSE devs[u]]

\* the inventory headers of a request: has names the headers that are
\* present, the other fields give their values
Headers(has, tags, target, ostreehash, dockerapps) ==
    [has |-> has, tags |-> tags, target |-> target, ostreehash |-> ostreehash,
     dockerapps |-> dockerapps]

TagsHeader(tag) == Headers({"x-ats-tags"}, tag, "", "", "")

\* the check-in middleware: what is passed to Device.CheckIn, a header that
\* is absent standing for the value of the device in hand
Reported(row, hdr) ==
    [targetName |-> IF "x-ats-target" \in hdr.has THEN hdr.target
                    ELSE row.target_name,
     tag        |-> IF "x-ats-tags" \in hdr.has THEN hdr.tags ELSE row.tag,
     ostreeHash |-> IF "x-ats-ostreehash" \in hdr.has THEN hdr.ostreehash
                    ELSE row.ostree_hash,
     apps       |-> IF "x-ats-dockerapps" \in hdr.has THEN hdr.dockerapps
                    ELSE row.apps]

\* a check-in that looks at the tag alone to decide that nothing changed
CheckIn_TagOnly(row, targetName, tag, ostreeHash, apps, now) ==
    IF tag = row.tag /\ now - row.last_seen < 60
    THEN row
    ELSE [row EXCEPT !.target_name = targetName, !.tag = tag,
                     !.ostree_hash = ostreeHash, !.apps = apps,
                     !.last_seen = now]

\* a check-in that skips the update whenever nothing changed, however long
\* ago the device was last seen
CheckIn_NoAgeTest(row, targetName, tag, ostreeHash, apps, now) ==
    IF /\ apps = row.apps
       /\ ostreeHash = row.ostree_hash
       /\ tag = row.tag
       /\ targetName = row.target_name
    THEN row
    ELSE [row EXCEPT !.target_name = targetName, !.tag = tag,
                     !.ostree_hash = ostreeHash, !.apps = apps,
                     !.last_seen = now]

\* Device.CheckIn with stmtDeviceCheckIn: no update when nothing changed and
\* the last check-in was less than a minute ago
CheckIn(row, targetName, tag, ostreeHash, apps, now) ==
    IF /\ apps = row.apps
       /\ ostreeHash = row.ostree_hash
       /\ tag = row.tag
       /\ targetName = row.target_name
       /\ now - row.last_seen < 60
    THEN row
    ELSE [row EXCEPT !.target_name = targetName, !.tag = tag,
                     !.ostree_hash = ostreeHash, !.apps = apps,
                     !.last_seen = now]

\* the row of a device after the check-in of a request with the headers hdr
CheckedIn(row, hdr, now) ==
    CheckIn(row, Reported(row, hdr).targetName, Reported(row, hdr).tag,
            Reported(row, hdr).ostreeHash, Reported(row, hdr).apps, now)

\* time.Now().Unix()
UnixNow == clock \div 1000

gwUnchanged == UNCHANGED <<hPc, hReq, hEff, hResp, cPc, cReq, wdPc, wdFirstRun,
                           wdSuccess, wdLines, wdLine, wdRollout, wdRepeat,
                           catalogDone, nFail, users, tokens, sessions, ui,
                           tail, sd>>

\* a request arrives at the gateway: authDevice
GwAuth(cert, kind, hdr) ==
    /\ gw.pc \in {"idle", "done"}
    /\ nOps < MaxOps
    /\ nOps' = nOps + 1
    /\ LET a == authDevice(devices, cert) IN
       /\ devices' = IF a.create
                     THEN DeviceCreate(devices, cert.cn, cert.pub, cert.isProd,
                                       UnixNow)
                     ELSE devices
       /\ gw' = [n |-> nOps', pc |-> IF a.next THEN "next" ELSE "done",
                 uuid |-> cert.cn, kind |-> kind, hdr |-> hdr, resp |-> a.resp]
    /\ UNCHANGED <<fs, clock, up, op>>
    /\ gwUnchanged

\* next(c): the check-in of the x-ats-tags header, then GET /device answers
\* the device, POST /events hands its events to ProcessEvents
GwNext(u, batch) ==
    /\ gw.pc = "next"
    /\ up[u].pc = "idle"
    /\ devices' = [devices EXCEPT ![gw.uuid] = CheckedIn(@, gw.hdr, UnixNow)]
    /\ IF gw.kind = "events" /\ validEventsCall(gw.uuid, batch) # NoCall
       THEN /\ up' = [up EXCEPT ![u] = validEventsCall(gw.uuid, batch)]
            /\ gw' = [gw EXCEPT !.pc = "events"]
       ELSE /\ up' = up
            /\ gw' = [gw EXCEPT !.pc = "done", !.resp = 200]
    /\ UNCHANGED <<fs, clock, nOps, op>>
    /\ gwUnchanged

\* eventsUpload answers 200 once ProcessEvents has returned
GwEventsReturn(u) ==
    /\ gw.pc = "events"
    /\ up[u].pc = "idle"
    /\ gw' = [gw EXCEPT !.pc = "done", !.resp = 200]
    /\ UNCHANGED <<fs, clock, devices, up, nOps, op>>
    /\ gwUnchanged

\* LabelsReq: the labels to set and the label names to delete
LabelsReq(upserts, deletes) == [upserts |-> upserts, deletes |-> deletes]

\* bodies of PATCH /devices/<uuid>/labels
LabelBodies ==
    {LabelsReq([k \in {"name"} |-> "v1"], {}),
     LabelsReq([k \in {"name", "site"} |-> IF k = "name" THEN "v2" ELSE "v1"], {}),
     LabelsReq(NoLabels, {"name"}),
     LabelsReq([k \in {"site"} |-> "special&value"], {})}

\* validLabelNameRegex and validLabelValueRegex with the length limits: the
\* names and values of the requests above that do not pass
validateLabelName(k) == k \notin {"special+name"}

validateLabelValue(v) == v \notin {"special&value"}

\* parseLabels with validateLabels: the merge patch of a request (Null for a
\* label to delete), ok false where an error is returned
parseLabels(req) ==
    LET keys == DOMAIN req.upserts \cup req.deletes
        patch == [k \in keys |->
                     IF k \in DOMAIN req.upserts THEN req.upserts[k] ELSE Null]
    IN  [ok    |-> /\ keys # {}
                   /\ DOMAIN req.upserts \cap req.deletes = {}
                   /\ \A k \in keys :
                          /\ validateLabelName(k)
                          /\ patch[k] # Null => validateLabelValue(patch[k]),
         patch |-> patch]

\* jsonb_patch(labels, patch): a merge patch of one level
jsonb_patch(labels, patch) ==
    [k \in {j \in DOMAIN labels \cup DOMAIN patch :
               j \in DOMAIN patch => patch[j] # Null} |->
        IF k \in DOMAIN patch THEN patch[k] ELSE labels[k]]

\* CREATE UNIQUE INDEX idx_device_name ON devices(name): no two rows of the
\* table have the same name, NULL apart
idx_device_name(devs) ==
    \A a, b \in DOMAIN devs :
        (a # b /\ LabelColumn(devs[a], "name") # Null)
            => LabelColumn(devs[a], "name") # LabelColumn(devs[b], "name")

\* stmtDeviceSetLabels: UPDATE devices SET labels=jsonb_patch(labels,?)
\* WHERE uuid IN (...); a row that breaks the unique index fails the
\* statement, which then changes nothing
stmtDeviceSetLabels(devs, patch, uuids) ==
    LET new == [u \in DOMAIN devs |->
                   IF u \in uuids
                   THEN [devs[u] EXCEPT !.labels = jsonb_patch(@, patch)]
                   ELSE devs[u]]
    IN  IF idx_device_name(new) THEN [err |-> "", devs |-> new]
        ELSE [err |-> "unique", devs |-> devs]

\* handlers.deviceLabelsPatch under handleDevice: the status and the table
deviceLabelsPatch(devs, uuid, req) ==
    IF DeviceGet(devs, uuid) = Null THEN [resp |-> 404, devs |-> devs]
    ELSE IF ~parseLabels(req).ok THEN [resp |-> 400, devs |-> devs]
    ELSE LET r == stmtDeviceSetLabels(devs, parseLabels(req).patch, {uuid})
         IN  [resp |-> IF r.err = "" THEN 200 ELSE 409, devs |-> r.devs]

\* PATCH /devices/<uuid>/labels
LabelsPatch(uuid, req) ==
    /\ nOps < MaxOps
    /\ nOps' = nOps + 1
    /\ devices' = deviceLabelsPatch(devices, uuid, req).devs
    /\ op' = [n |-> nOps', uuid |-> uuid, body |-> req,
              resp |-> deviceLabelsPatch(devices, uuid, req).resp]
    /\ UNCHANGED <<fs, clock, up, gw>>
    /\ gwUnchanged

DeviceInit ==
    /\ fs = [d \in {UpdatesBranchDir(IsProd)} |-> EmptyDir]
    /\ clock = 0
    /\ nFail = 0
    /\ up = [u \in Uploaders |-> NoCall]
    /\ nOps = 0
    /\ devices = CatalogDevices
    /\ InitHandlers
    /\ NoUsers

DeviceNext ==
    \/ \E cert \in Certs, tag \in {Tag1, Tag2} :
           GwAuth(cert, "device", TagsHeader(tag))
    \/ \E cert \in Certs : GwAuth(cert, "events", TagsHeader(Tag1))
    \/ \E u \in OneUploader,
          batch \in {<<UpdateEvent("1", NewCorr1)>>, <<UpdateEvent("", NewCorr1)>>} :
           GwNext(u, batch)
    \/ \E u \in OneUploader : GwEventsReturn(u)
    \/ \E u \in OneUploader : ProcessEventsAppend(u)
    \/ \E u \in OneUploader : rolloverFilesList(u)
    \/ \E uuid \in {"d1", "d2", "d3"}, req \in LabelBodies : LabelsPatch(uuid, req)

DeviceSpec == DeviceInit /\ [][DeviceNext]_vars

(***************************************************************************)
(* C14  Gateway requests of deleted devices                                *)
(***************************************************************************)
\* C14: a gateway request from a device whose row has deleted=true is
\* answered 403 by authDevice and goes no further: next(c) is not called, no
\* row is created or changed (no check-in) and no file is written; and no
\* request past authDevice is that of a deleted device.
C14_DeletedDeviceRejected ==
    [][/\ (/\ gw'.n # gw.n
           /\ gw'.uuid \in DOMAIN devices
           /\ devices[gw'.uuid].deleted)
             => /\ gw'.pc = "done"
                /\ gw'.resp = 403
                /\ devices' = devices
                /\ fs' = fs
                /\ up' = up
       /\ gw'.pc \in {"next", "events"}
             => gw'.uuid \in DOMAIN devices' /\ ~devices'[gw'.uuid].deleted]_vars

\* the deleted device d3 has been turned away after another device's events
\* were stored and a new device was created
C14_Witness ==
    /\ gw.pc = "done"
    /\ gw.uuid = "d3"
    /\ gw.resp = 403
    /\ devices["d3"].deleted
    /\ \E d \in DOMAIN fs : d # UpdatesBranchDir(IsProd)

(***************************************************************************)
(* C20  Uniqueness of the name label                                       *)
(***************************************************************************)
\* the PATCH just answered set the name label of a device that handleDevice
\* found, with a body that parseLabels accepts
NamePatched ==
    /\ op'.n # op.n
    /\ DeviceGet(devices, op'.uuid) # Null
    /\ parseLabels(op'.body).ok
    /\ "name" \in DOMAIN op'.body.upserts

\* another device of devs that is not deleted carries the name
NameTaken(devs, uuid, name) ==
    \E b \in DOMAIN devs :
        /\ b # uuid
        /\ ~devs[b].deleted
        /\ LabelColumn(devs[b], "name") = name

\* no two devices of devs that are not deleted have the same name
NamesUnique(devs) ==
    \A a, b \in DOMAIN devs :
        (a # b /\ ~devs[a].deleted /\ ~devs[b].deleted
              /\ LabelColumn(devs[a], "name") # Null)
            => LabelColumn(devs[a], "name") # LabelColumn(devs[b], "name")

\* C20: a PATCH that sets the name label of a device is answered 200 and
\* applied unless another device that is not deleted carries that name; in
\* that case it is answered 409 and no label of any device changes.  After
\* every step no two devices that are not deleted share a name.
C20_NameUniqueAmongNotDeleted ==
    [][/\ NamePatched =>
             IF NameTaken(devices, op'.uuid, op'.body.upserts["name"])
             THEN op'.resp = 409 /\ devices' = devices
             ELSE /\ op'.resp = 200
                  /\ LabelColumn(devices'[op'.uuid], "name")
                         = op'.body.upserts["name"]
       /\ NamesUnique(devices')]_vars

(***************************************************************************)
(* Users, tokens and sessions                                              *)
(*                                                                         *)
(* A Scopes value is a set of bits.  users, tokens and sessions are the    *)
(* tables of that name: functions from the primary key to the row.  A      *)
(* User object is what a handler holds in memory: the fields scanned from  *)
(* the users row, AllowedScopes narrowed by the token or session used.     *)
(***************************************************************************)
MaxClock == 2      \* the last second the clock reaches

ScopeDevicesR == {"devices:read"}
ScopeDevicesRU == {"devices:read", "devices:update"}
ScopeUsersC == {"users:create"}
ScopeUsersRU == {"users:read", "users:update"}
ScopeUsersD == {"users:delete"}

\* Scopes.Has
Has(scopes, scope) == scope \subseteq scopes

\* the scopes a request may ask for
RequestedScopes == {ScopeDevicesR, ScopeDevicesRU, ScopeUsersC}

\* User{}
ZeroUser == [id |-> 0, Username |-> "", AllowedScopes |-> {}, Deleted |-> FALSE]

\* the User scanned from the row id of us
ScanUser(us, id) ==
    [id |-> id, Username |-> us[id].username,
     AllowedScopes |-> us[id].allowed_scopes, Deleted |-> FALSE]

\* stmtUserGetById: SELECT ... WHERE id = ? and deleted = false; run returns
\* &u with the error of Scan, so a User{} comes with sql.ErrNoRows
stmtUserGetById(us, id) ==
    IF id \in DOMAIN us /\ ~us[id].deleted
    THEN [u |-> ScanUser(us, id), err |-> ""]
    ELSE [u |-> ZeroUser, err |-> "ErrNoRows"]

\* Storage.Get over stmtUserGetByName (WHERE username = ? AND deleted =
\* false): nil for sql.ErrNoRows
Get(us, username) ==
    LET ids == {i \in DOMAIN us : us[i].username = username /\ ~us[i].deleted}
    IN  IF ids = {} THEN NilUser ELSE ScanUser(us, CHOOSE i \in ids : TRUE)

\* stmtUserUpdate: UPDATE users SET username, ..., allowed_scopes, deleted
\* WHERE id = u.id
stmtUserUpdate(us, u) ==
    [i \in DOMAIN us |->
        IF i = u.id
        THEN [username |-> u.Username, allowed_scopes |-> u.AllowedScopes,
              deleted |-> u.Deleted]
        ELSE us[i]]

\* rand.Text() of the request numbered n, and the HMAC of a token value in hex
TokenValue(n) == <<"tok", n>>
HmacHex(value) == <<"hmac">> \o value

\* a table without the rows of ids
DeleteRows(table, ids) == [i \in DOMAIN table \ ids |-> table[i]]

\* a table with one more row
InsertRow(table, id, row) ==
    [i \in DOMAIN table \cup {id} |-> IF i = id THEN row ELSE table[i]]

\* Storage.GetByToken with an expiry test that turns the token away from the
\* second expires_at on
GetByToken_ExpiredAtE(tk, us, now, token) ==
    LET hashed == HmacHex(token)
        ids == {i \in DOMAIN tk : tk[i].value = hashed}
    IN  IF ids = {} THEN [u |-> NilUser, err |-> ""]
        ELSE LET t == tk[CHOOSE i \in ids : TRUE]
                 r == stmtUserGetById(us, t.user_id)
             IN  IF t.expires_at <= now THEN [u |-> NilUser, err |-> ""]
                 ELSE [u |-> [r.u EXCEPT !.AllowedScopes = t.scopes \cap @],
                       err |-> r.err]

\* Storage.GetByToken: (user, error) for a bearer token at the second now
GetByToken(tk, us, now, token) ==
    LET hashed == HmacHex(token)
        ids == {i \in DOMAIN tk : tk[i].value = hashed}
    IN  IF ids = {} THEN [u |-> NilUser, err |-> ""]
        ELSE LET t == tk[CHOOSE i \in ids : TRUE]
                 r == stmtUserGetById(us, t.user_id)
             IN  IF t.expires_at < now THEN [u |-> NilUser, err |-> ""]
                 ELSE [u |-> [r.u EXCEPT !.AllowedScopes = t.scopes \cap @],
                       err |-> r.err]

\* Storage.GetBySession without the intersection: the scopes stored with the
\* session are the scopes of the user returned
GetBySession_StoredScopes(ss, us, now, id) ==
    IF id \notin DOMAIN ss THEN [u |-> NilUser, err |-> ""]
    ELSE LET sess == ss[id]
             r == stmtUserGetById(us, sess.user_id)
         IN  IF sess.expires_at < now THEN [u |-> NilUser, err |-> ""]
             ELSE [u |-> [r.u EXCEPT !.AllowedScopes = sess.scopes],
                   err |-> r.err]

\* Storage.GetBySession: (user, error) for a session id at the second now
GetBySession(ss, us, now, id) ==
    IF id \notin DOMAIN ss THEN [u |-> NilUser, err |-> ""]
    ELSE LET sess == ss[id]
             r == stmtUserGetById(us, sess.user_id)
         IN  IF sess.expires_at < now THEN [u |-> NilUser, err |-> ""]
             ELSE [u |-> [r.u EXCEPT !.AllowedScopes = sess.scopes \cap @],
                   err |-> r.err]

\* User.GenerateToken without the test of the requested scopes
GenerateToken_NoScopeCheck(tk, u, n, expires, scopes) ==
    [err |-> "",
     tokens |-> InsertRow(tk, n, [user_id |-> u.id, expires_at |-> expires,
                                  scopes |-> scopes,
                                  value |-> HmacHex(TokenValue(n))])]

\* User.GenerateToken on the object u: the error and the tokens table
GenerateToken(tk, u, n, expires, scopes) ==
    IF scopes \cap u.AllowedScopes # scopes
    THEN [err |-> "exceed", tokens |-> tk]
    ELSE [err |-> "",
          tokens |-> InsertRow(tk, n, [user_id |-> u.id, expires_at |-> expires,
                                       scopes |-> scopes,
                                       value |-> HmacHex(TokenValue(n))])]

\* User.CreateSession on the object u: the error and the session table
CreateSession(ss, u, n, expires, scopes) ==
    IF scopes \cap u.AllowedScopes # scopes
    THEN [err |-> "exceed", sessions |-> ss]
    ELSE [err |-> "",
          sessions |-> InsertRow(ss, n, [user_id |-> u.id,
                                        expires_at |-> expires,
                                        scopes |-> scopes])]

\* User.ListTokens: the public ids of stmtTokenList (WHERE user_id = ?)
ListTokens(tk, id) == {i \in DOMAIN tk : tk[i].user_id = id}

\* stmtTokenDeleteAll: DELETE FROM tokens WHERE user_id = ?
stmtTokenDeleteAll(tk, id) == DeleteRows(tk, ListTokens(tk, id))

\* a purge that takes the rows in their last second too
stmtDeleteExpired_UpToNow(table, before) ==
    DeleteRows(table, {i \in DOMAIN table : table[i].expires_at <= before})

\* stmtTokenDeleteExpired and stmtSessionDeleteExpired:
\* DELETE ... WHERE expires_at < ?
stmtDeleteExpired(table, before) ==
    DeleteRows(table, {i \in DOMAIN table : table[i].expires_at < before})

\* what a request presents: a bearer token, the session cookie, or the
\* username of the login form.  The first connection is that of alice, the
\* second that of admin.
Credentials(h) ==
    IF h = 1
    THEN [kind : {"bearer"}, value : {TokenValue(n) : n \in 1..MaxOps}]
             \cup [kind : {"cookie"}, value : {11}]
             \cup [kind : {"login"}, value : {"alice"}]
    ELSE [kind : {"cookie"}, value : {12}]

\* commonProvider.GetUser and handleLogin up to the user: the User object of
\* the request and the status answered when there is none
GetUser(cred) ==
    IF cred.kind = "bearer"
    THEN LET r == GetByToken(tokens, users, UnixNow, cred.value)
         IN  IF r.err # "" THEN [user |-> NilUser, resp |-> 500]
             ELSE IF r.u = NilUser THEN [user |-> NilUser, resp |-> 401]
             ELSE [user |-> r.u, resp |-> 0]
    ELSE IF cred.kind = "cookie"
    THEN LET r == GetBySession(sessions, users, UnixNow, cred.value)
         IN  IF r.u # NilUser THEN [user |-> r.u, resp |-> 0]
             ELSE [user |-> NilUser, resp |-> 401]
    ELSE LET u == Get(users, cred.value)
         IN  IF u = NilUser THEN [user |-> NilUser, resp |-> 401]
             ELSE [user |-> u, resp |-> 0]

uiUnchanged == UNCHANGED <<fs, devices, rolloutVars, nFail, up, gw, op, tail,
                           sd>>

\* a web request arrives and its user is resolved
UiAuth(h, cred) ==
    /\ ui[h].pc \in {"idle", "done"}
    /\ nOps < MaxOps
    /\ nOps' = nOps + 1
    /\ ui' = [ui EXCEPT ![h] =
                 [n |-> nOps',
                  pc |-> IF GetUser(cred).user = NilUser THEN "done"
                         ELSE IF cred.kind = "login" THEN "login" ELSE "authed",
                  user |-> GetUser(cred).user, call |-> "", scopes |-> {},
                  target |-> NilUser,
                  resp |-> GetUser(cred).resp]]
    /\ UNCHANGED <<clock, users, tokens, sessions>>
    /\ uiUnchanged

\* handleLogin: the session of the user just looked up
SessionCreate(h, scopes, expires) ==
    /\ ui[h].pc = "login"
    /\ LET r == CreateSession(sessions, ui[h].user, ui[h].n, expires, scopes)
       IN  /\ sessions' = r.sessions
           /\ ui' = [ui EXCEPT ![h].pc = "done", ![h].call = "session",
                               ![h].scopes = scopes,
                               ![h].resp = IF r.err = "" THEN 303 ELSE 500]
    /\ UNCHANGED <<clock, nOps, users, tokens>>
    /\ uiUnchanged

\* handlers.userTokenCreate
TokenCreate(h, scopes, expires) ==
    /\ ui[h].pc = "authed"
    /\ LET r == GenerateToken(tokens, ui[h].user, ui[h].n, expires, scopes)
       IN  IF expires < UnixNow
           THEN /\ tokens' = tokens
                /\ ui' = [ui EXCEPT ![h].pc = "done", ![h].call = "expired",
                                    ![h].scopes = scopes, ![h].resp = 400]
           ELSE /\ tokens' = r.tokens
                /\ ui' = [ui EXCEPT ![h].pc = "done", ![h].call = "token",
                                    ![h].scopes = scopes,
                                    ![h].resp = IF r.err = "" THEN 201 ELSE 400]
    /\ UNCHANGED <<clock, nOps, users, sessions>>
    /\ uiUnchanged

\* handlers.userScopesUpdate
ScopesUpdate(h, username, scopes) ==
    /\ ui[h].pc = "authed"
    /\ Get(users, username) # NilUser
    /\ IF ~Has(ui[h].user.AllowedScopes, ScopeUsersRU)
       THEN /\ users' = users
            /\ ui' = [ui EXCEPT ![h].pc = "done", ![h].call = "scopes",
                                ![h].resp = 403]
       ELSE /\ users' = stmtUserUpdate(users,
                            [Get(users, username) EXCEPT !.AllowedScopes = scopes])
            /\ ui' = [ui EXCEPT ![h].pc = "done", ![h].call = "scopes",
                                ![h].resp = 204]
    /\ UNCHANGED <<clock, nOps, tokens, sessions>>
    /\ uiUnchanged

\* handlers.userDelete up to the first statement of User.Delete:
\* stmtTokenDeleteAll
UserDeleteTokens(h, username) ==
    /\ ui[h].pc = "authed"
    /\ Get(users, username) # NilUser
    /\ IF ui[h].user.Username = username
       THEN /\ tokens' = tokens
            /\ ui' = [ui EXCEPT ![h].pc = "done", ![h].call = "delete",
                                ![h].resp = 400]
       ELSE /\ tokens' = stmtTokenDeleteAll(tokens, Get(users, username).id)
            /\ ui' = [ui EXCEPT ![h].pc = "delete", ![h].call = "delete",
                                ![h].target = [Get(users, username)
                                                  EXCEPT !.Deleted = TRUE]]
    /\ UNCHANGED <<clock, nOps, users, sessions>>
    /\ uiUnchanged

\* the second statement of User.Delete: Update with Deleted set
UserDeleteUpdate(h) ==
    /\ ui[h].pc = "delete"
    /\ users' = stmtUserUpdate(users, ui[h].target)
    /\ ui' = [ui EXCEPT ![h].pc = "done", ![h].resp = 200]
    /\ UNCHANGED <<clock, nOps, tokens, sessions>>
    /\ uiUnchanged

\* Storage.RunGc of the daemon
RunGc ==
    /\ tokens' = stmtDeleteExpired(tokens, UnixNow)
    /\ sessions' = stmtDeleteExpired(sessions, UnixNow)
    /\ tokens' # tokens \/ sessions' # sessions
    /\ UNCHANGED <<clock, nOps, users, ui>>
    /\ uiUnchanged

\* a second passes
Tick ==
    /\ UnixNow < MaxClock
    /\ clock' = clock + 1000
    /\ UNCHANGED <<nOps, users, tokens, sessions, ui>>
    /\ uiUnchanged

\* two users, each logged in: alice works on devices, admin on users
StoredUsers ==
    [i \in {1, 2} |->
        IF i = 1
        THEN [username |-> "alice", allowed_scopes |-> ScopeDevicesRU,
              deleted |-> FALSE]
        ELSE [username |-> "admin",
              allowed_scopes |-> ScopeUsersRU \cup ScopeUsersD,
              deleted |-> FALSE]]

StoredSessions ==
    [i \in {11, 12} |->
        IF i = 11
        THEN [user_id |-> 1, expires_at |-> 1, scopes |-> ScopeDevicesRU]
        ELSE [user_id |-> 2, expires_at |-> MaxClock + 1,
              scopes |-> ScopeUsersRU \cup ScopeUsersD]]

UsersInit ==
    /\ fs = [d \in {UpdatesBranchDir(IsProd)} |-> EmptyDir]
    /\ clock = 0
    /\ nFail = 0
    /\ up = [u \in Uploaders |-> NoCall]
    /\ nOps = 0
    /\ devices = InitDevices
    /\ InitHandlers
    /\ users = StoredUsers
    /\ tokens = <<>>
    /\ sessions = StoredSessions

UsersNext ==
    \/ \E h \in UiHandlers : \E cred \in Credentials(h) : UiAuth(h, cred)
    \/ \E h \in UiHandlers, scopes \in RequestedScopes :
           SessionCreate(h, scopes, 1)
    \/ \E h \in UiHandlers, scopes \in RequestedScopes, expires \in 0..1 :
           TokenCreate(h, scopes, expires)
    \/ \E h \in UiHandlers, scopes \in {ScopeDevicesR, ScopeDevicesRU} :
           ScopesUpdate(h, "alice", scopes)
    \/ \E h \in UiHandlers, username \in {"alice", "admin"} :
           UserDeleteTokens(h, username)
    \/ \E h \in UiHandlers : UserDeleteUpdate(h)
    \/ RunGc
    \/ Tick

UsersSpec == UsersInit /\ [][UsersNext]_vars

(***************************************************************************)
(* C15  Lookup of a token                                                  *)
(***************************************************************************)
\* the user of the row id is there and not deleted
UserLive(id) == id \in DOMAIN users /\ ~users[id].deleted

\* the User that a lookup through stored scopes yields: the row of the user
\* with the stored scopes cut down to the user's allowed scopes of now
Effective(id, scopes) ==
    [ScanUser(users, id) EXCEPT
        !.AllowedScopes = scopes \cap users[id].allowed_scopes]

\* what a lookup of the token numbered i answers now
LookupToken(i) == GetByToken(tokens, users, UnixNow, TokenValue(i))

\* C15 as stated: the lookup of a stored token T of a user U who is not
\* deleted, with scopes S and expiration E, returns U with the scopes
\* S \cap U.allowed when now < E, and nil otherwise.
C15_TokenResolvesBeforeE ==
    \A i \in DOMAIN tokens :
        UserLive(tokens[i].user_id) =>
            IF UnixNow < tokens[i].expires_at
            THEN /\ LookupToken(i).err = ""
                 /\ LookupToken(i).u
                        = Effective(tokens[i].user_id, tokens[i].scopes)
            ELSE LookupToken(i).u = NilUser

\* C15 amended: the lookup of a stored token T of a user U who is not
\* deleted, with scopes S and expiration E, returns U with the scopes
\* S \cap U.allowed as long as now <= E (the second E included), and nil
\* without an error once now > E; a token that is not stored resolves to nil.
C15_TokenResolvesUntilE ==
    /\ \A i \in DOMAIN tokens :
           UserLive(tokens[i].user_id) =>
               IF UnixNow <= tokens[i].expires_at
               THEN /\ LookupToken(i).err = ""
                    /\ LookupToken(i).u
                           = Effective(tokens[i].user_id, tokens[i].scopes)
               ELSE LookupToken(i).u = NilUser /\ LookupToken(i).err = ""
    /\ \A n \in (1..MaxOps) \ DOMAIN tokens :
           LookupToken(n).u = NilUser /\ LookupToken(n).err = ""

\* one token of alice is in its last second and resolves to alice, another
\* one has expired and resolves to nil
C15_Witness ==
    \E i, j \in DOMAIN tokens :
        /\ tokens[i].expires_at = UnixNow
        /\ LookupToken(i).u.id = 1
        /\ LookupToken(i).u.AllowedScopes = ScopeDevicesR
        /\ tokens[j].expires_at < UnixNow
        /\ LookupToken(j).u = NilUser

(***************************************************************************)
(* C16  Downscoping of live tokens and sessions                            *)
(***************************************************************************)
\* this step shrinks the allowed scopes of the user id
Shrinks(id) ==
    /\ ~users[id].deleted
    /\ ~users'[id].deleted
    /\ users'[id].allowed_scopes \subseteq users[id].allowed_scopes
    /\ users'[id].allowed_scopes # users[id].allowed_scopes

\* C16: when the allowed scopes of a user shrink from S0 to S1, no token or
\* session row is rewritten, and the lookup that follows of any live token
\* or session of that user with stored scopes S_T yields S_T \cap S1; and no
\* lookup of a token or session yields scopes beyond the allowed scopes that
\* the user has at that time.
C16_DownscopeAtNextLookup ==
    [][/\ \A id \in DOMAIN users :
              Shrinks(id) =>
                  /\ tokens' = tokens
                  /\ sessions' = sessions
                  /\ \A i \in DOMAIN tokens :
                         (tokens[i].user_id = id /\ tokens[i].expires_at >= UnixNow)
                             => GetByToken(tokens', users', UnixNow',
                                           TokenValue(i)).u.AllowedScopes
                                    = tokens[i].scopes \cap users'[id].allowed_scopes
                  /\ \A i \in DOMAIN sessions :
                         (sessions[i].user_id = id
                              /\ sessions[i].expires_at >= UnixNow)
                             => GetBySession(sessions', users', UnixNow',
                                             i).u.AllowedScopes
                                    = sessions[i].scopes
                                          \cap users'[id].allowed_scopes
       /\ \A i \in DOMAIN tokens' :
              LET u == GetByToken(tokens', users', UnixNow', TokenValue(i)).u
              IN  u.id \in DOMAIN users'
                      => u.AllowedScopes \subseteq users'[u.id].allowed_scopes
       /\ \A i \in DOMAIN sessions' :
              LET u == GetBySession(sessions', users', UnixNow', i).u
              IN  u.id \in DOMAIN users'
                      => u.AllowedScopes \subseteq users'[u.id].allowed_scopes]_vars

\* admin has cut alice down to devices:read: her token and her session,
\* both stored with read and update, now resolve to alice with read alone
C16_Witness ==
    /\ users[1].allowed_scopes = ScopeDevicesR
    /\ \E h \in UiHandlers : ui[h].resp = 204
    /\ 11 \in DOMAIN sessions
    /\ sessions[11].scopes = ScopeDevicesRU
    /\ GetBySession(sessions, users, UnixNow, 11).u.id = 1
    /\ GetBySession(sessions, users, UnixNow, 11).u.AllowedScopes = ScopeDevicesR
    /\ \E i \in DOMAIN tokens :
           /\ tokens[i].scopes = ScopeDevicesRU
           /\ LookupToken(i).u.id = 1
           /\ LookupToken(i).u.AllowedScopes = ScopeDevicesR

(***************************************************************************)
(* C17  Requested scopes beyond the allowed scopes                         *)
(***************************************************************************)
\* this step is GenerateToken or CreateSession called for the request h
IssuedBy(h) ==
    /\ ui[h].pc # "done"
    /\ ui'[h].pc = "done"
    /\ ui'[h].call \in {"token", "session"}

\* the row that the call for the request h stored, if it stored one
RowStored(h) ==
    IF ui'[h].call = "token"
    THEN /\ DOMAIN tokens' = DOMAIN tokens \cup {ui[h].n}
         /\ ui[h].n \notin DOMAIN tokens
         /\ tokens'[ui[h].n].user_id = ui[h].user.id
         /\ tokens'[ui[h].n].scopes = ui'[h].scopes
         /\ sessions' = sessions
    ELSE /\ DOMAIN sessions' = DOMAIN sessions \cup {ui[h].n}
         /\ ui[h].n \notin DOMAIN sessions
         /\ sessions'[ui[h].n].user_id = ui[h].user.id
         /\ sessions'[ui[h].n].scopes = ui'[h].scopes
         /\ tokens' = tokens

\* C17: GenerateToken and CreateSession, called on a User with the requested
\* scopes R, store the row with the scopes R when R & user.allowed = R; when
\* not, the call fails, the request is answered with an error, and the
\* tokens and session tables are left as they were.
C17_ScopesWithinAllowed ==
    [][\A h \in UiHandlers :
           IssuedBy(h) =>
               IF ui'[h].scopes \cap ui[h].user.AllowedScopes = ui'[h].scopes
               THEN RowStored(h) /\ ui'[h].resp \in {201, 303}
               ELSE /\ tokens' = tokens
                    /\ sessions' = sessions
                    /\ ui'[h].resp \in {400, 500}]_vars

\* alice, acting through a token of scope devices:read, has just been
\* refused a token with read and update; a token and a session asked for
\* within her scopes are stored
C17_Witness ==
    /\ ui[1].call = "token"
    /\ ui[1].resp = 400
    /\ ui[1].scopes = ScopeDevicesRU
    /\ ui[1].user.AllowedScopes = ScopeDevicesR
    /\ ui[1].n \notin DOMAIN tokens
    /\ \E i \in DOMAIN tokens : tokens[i].user_id = 1
    /\ \E i \in DOMAIN sessions \ {11, 12} : sessions[i].user_id = 1

(***************************************************************************)
(* C18  Garbage collection of tokens and sessions                          *)
(***************************************************************************)
\* this step is a run of the GC: rows go although no request moves
GcStep ==
    /\ ui' = ui
    /\ tokens' # tokens \/ sessions' # sessions

\* the rows of a table that have expired at the second now
Expired(table, now) == {i \in DOMAIN table : table[i].expires_at < now}

\* C18: a GC run deletes every token and every session with
\* expires_at < now and no other row, the rows kept being unchanged; after
\* it no expired token is in the token list of its user and no expired
\* session resolves.
C18_GcPurgesExpiredOnly ==
    [][GcStep =>
           /\ tokens' = [i \in DOMAIN tokens \ Expired(tokens, UnixNow) |->
                            tokens[i]]
           /\ sessions' = [i \in DOMAIN sessions \ Expired(sessions, UnixNow) |->
                              sessions[i]]
           /\ \A i \in Expired(tokens, UnixNow) :
                  i \notin ListTokens(tokens', tokens[i].user_id)
           /\ \A i \in Expired(sessions, UnixNow) :
                  GetBySession(sessions', users', UnixNow', i).u = NilUser]_vars

\* the token that alice's last request created with expiry 0 is gone after
\* a GC run in second 1, while her token with expiry 1 is still listed and
\* resolves, and so does her session
C18_Witness ==
    /\ UnixNow = 1
    /\ ui[2] = NoUi
    /\ ui[1].call = "token"
    /\ ui[1].resp = 201
    /\ ui[1].n \notin DOMAIN tokens
    /\ \E i \in ListTokens(tokens, 1) :
           tokens[i].expires_at = 1 /\ LookupToken(i).u.id = 1
    /\ GetBySession(sessions, users, UnixNow, 11).u.id = 1

(***************************************************************************)
(* C19  Deletion of a user                                                 *)
(***************************************************************************)
\* User.Delete returns nil to the request h in this step
DeleteSucceeds(h) == ui[h].pc = "delete" /\ ui'[h].pc = "done"

\* the lookup of the token numbered n resolves to the user id after the step
ResolvesTo(n, id) ==
    LET r == GetByToken(tokens', users', UnixNow', TokenValue(n))
    IN  r.err = "" /\ r.u.id = id

\* C19: when User.Delete succeeds, the token list of the deleted user is
\* empty and no token issued before resolves to that user.
C19_DeleteCascadesTokens ==
    [][\A h \in UiHandlers :
           DeleteSucceeds(h) =>
               /\ ListTokens(tokens', ui[h].target.id) = {}
               /\ \A n \in 1..MaxOps : ~ResolvesTo(n, ui[h].target.id)]_vars

(***************************************************************************)
(* Check-ins over time                                                     *)
(***************************************************************************)
MaxWaits == 2      \* half minutes that pass in one behaviour

\* the headers of a full check-in, of a partial one, and of one without
\* inventory
HeaderSets ==
    {Headers({"x-ats-tags", "x-ats-target", "x-ats-ostreehash",
              "x-ats-dockerapps"}, Tag1, "t1", "h1", "a1"),
     Headers({"x-ats-tags", "x-ats-dockerapps"}, Tag2, "", "", "a2"),
     NoHeaders}

\* half a minute passes
Wait ==
    /\ clock < MaxWaits * 30000
    /\ clock' = clock + 30000
    /\ UNCHANGED <<fs, devices, up, nOps, gw, op>>
    /\ gwUnchanged

CheckInNext ==
    \/ \E cert \in Certs, hdr \in HeaderSets : GwAuth(cert, "device", hdr)
    \/ \E u \in OneUploader : GwNext(u, <<>>)
    \/ Wait

CheckInSpec == DeviceInit /\ [][CheckInNext]_vars

(***************************************************************************)
(* C25  Partial inventory headers                                          *)
(***************************************************************************)
\* the check-in of the request in hand happens in this step
CheckInStep == gw.pc = "next" /\ gw'.pc # "next"

\* C25: a check-in sets the column of every inventory header that the
\* request carries to the value of the header, and leaves the column of
\* every header that the request does not carry as stored; no row of another
\* device changes.
C25_AbsentHeadersKeepColumns ==
    [][CheckInStep =>
           LET old == devices[gw.uuid]
               new == devices'[gw.uuid]
               hdr == gw.hdr
           IN  /\ new.tag = IF "x-ats-tags" \in hdr.has THEN hdr.tags
                            ELSE old.tag
               /\ new.target_name = IF "x-ats-target" \in hdr.has
                                    THEN hdr.target ELSE old.target_name
               /\ new.ostree_hash = IF "x-ats-ostreehash" \in hdr.has
                                    THEN hdr.ostreehash ELSE old.ostree_hash
               /\ new.apps = IF "x-ats-dockerapps" \in hdr.has
                             THEN hdr.dockerapps ELSE old.apps
               /\ \A u \in DOMAIN devices \ {gw.uuid} :
                      devices'[u] = devices[u]]_vars

\* d1 has checked in with tags and apps alone after a full check-in: tag and
\* apps are the new ones, target and hash are those of the full check-in
C25_Witness ==
    /\ gw.pc = "done"
    /\ gw.uuid = "d1"
    /\ gw.hdr.has = {"x-ats-tags", "x-ats-dockerapps"}
    /\ devices["d1"].tag = Tag2
    /\ devices["d1"].apps = "a2"
    /\ devices["d1"].target_name = "t1"
    /\ devices["d1"].ostree_hash = "h1"

(***************************************************************************)
(* C26  The dedup rule of the check-in                                     *)
(***************************************************************************)
\* the four values reported are those of the row
Unchanged(row, r) ==
    /\ r.apps = row.apps
    /\ r.ostreeHash = row.ostree_hash
    /\ r.tag = row.tag
    /\ r.targetName = row.target_name

\* C26: a check-in leaves the devices table as it is if and only if apps,
\* ostreeHash, tag and targetName equal the stored values and
\* now - last_seen < 60; in every other case the row of the device gets the
\* reported values and last_seen = now, which changes it.
C26_SkipIffUnchangedAndRecent ==
    [][CheckInStep =>
           LET old == devices[gw.uuid]
               r == Reported(old, gw.hdr)
           IN  IF Unchanged(old, r) /\ UnixNow - old.last_seen < 60
               THEN devices' = devices
               ELSE /\ devices' # devices
                    /\ devices'[gw.uuid] =
                           [old EXCEPT !.apps = r.apps,
                                       !.ostree_hash = r.ostreeHash,
                                       !.tag = r.tag,
                                       !.target_name = r.targetName,
                                       !.last_seen = UnixNow]]_vars

\* a minute after its last update d1 has reported the same inventory again
\* and its last_seen has moved
C26_Witness ==
    /\ gw.pc = "done"
    /\ gw.uuid = "d1"
    /\ gw.n = MaxOps
    /\ gw.hdr.has = {"x-ats-tags", "x-ats-target", "x-ats-ostreehash",
                     "x-ats-dockerapps"}
    /\ devices["d1"].target_name = "t1"
    /\ devices["d1"].last_seen = 60
    /\ UnixNow = 60


(***************************************************************************)
(* The tail of logs/rollouts.log                                           *)
(*                                                                         *)
(* tail.log is the file of one update, a line per entry, and tail.conn     *)
(* the requests GET .../tail: pc, pos and cancelled are the iterator of    *)
(* readFileLines and its stop channel, k, n, out and done the handler's    *)
(* side: the Last-Event-ID, the lines counted, the events written and      *)
(* whether the handler has finished.  at, missing, err and polls record    *)
(* the length of the log at connect, an absent log at connect, a read      *)
(* error and the timer wake-ups after the cancellation.                    *)
(***************************************************************************)
MaxLines == 2      \* lines appended to the log in one behaviour
LogLines == {"Download started", "Download completed"}
\* the first connection comes without a usable Last-Event-ID, the second
\* resumes
LastEventIds(c) == IF c = 1 THEN {"", "x"} ELSE {"1", "2"}

\* the header as a number, 0 when it is missing or no number
LastEventId(h) ==
    CASE h = "1" -> 1
      [] h = "2" -> 2
      [] OTHER -> 0

LogEvent(id, line) == [event |-> "log", id |-> id, retry |-> 0, data |-> line]
NoLogsEvent ==
    [event |-> "error", id |-> 0, retry |-> 1000,
     data |-> "No rollout logs for this update yet."]

\* an open that yields nothing for a missing file, whatever the caller asks
readFileLinesOpen_Silent(exists, ignoreNotExist) ==
    IF exists THEN "open" ELSE "end"

\* os.OpenFile in readFileLines: one error is yielded, or nothing at all
\* when a missing file is ignored, and the iterator returns
readFileLinesOpen(exists, ignoreNotExist) ==
    IF exists THEN "open"
    ELSE IF ignoreNotExist THEN "end" ELSE "error"

TailFileLines_IgnoreNotExist(exists) == readFileLinesOpen(exists, TRUE)
TailFileLines(exists) == readFileLinesOpen(exists, FALSE)

\* the handler takes a line: it counts it and writes it when its id is
\* past the Last-Event-ID
TailLine(conn, line) ==
    [conn EXCEPT !.n = @ + 1,
                 !.out = IF conn.n + 1 > conn.k
                         THEN Append(@, LogEvent(conn.n + 1, line))
                         ELSE @]

\* the iterator has returned: the handler's loop ends
Returned(conn) == [conn EXCEPT !.pc = "returned", !.done = TRUE]

tailUnchanged == UNCHANGED <<fs, clock, devices, rolloutVars, nFail, up, nOps,
                             gw, op, users, tokens, sessions, ui, sd>>

\* a rollout appends an entry to the log, creating the file
AppendLog(line) ==
    /\ Len(tail.log) < MaxLines
    /\ tail' = [tail EXCEPT !.exists = TRUE, !.log = Append(@, line)]
    /\ tailUnchanged

\* GET .../tail: the iterator opens the log
TailConnect(c, h) ==
    /\ tail.conn[c].pc = "idle"
    /\ LET conn == [tail.conn[c] EXCEPT !.k = LastEventId(h),
                                        !.at = Len(tail.log)]
           opened == TailFileLines(tail.exists)
       IN  tail' = [tail EXCEPT !.conn[c] =
                CASE opened = "open" -> [conn EXCEPT !.pc = "scan"]
                  [] opened = "error" ->
                        Returned([conn EXCEPT !.missing = TRUE,
                                              !.out = <<NoLogsEvent>>])
                  [] OTHER -> Returned(conn)]
    /\ tailUnchanged

\* scanner.Scan has a line: it is yielded, and the iterator returns when
\* the consumer has stopped
TailScanLine(c) ==
    /\ tail.conn[c].pc = "scan"
    /\ tail.conn[c].pos < Len(tail.log)
    /\ LET conn == tail.conn[c]
           line == tail.log[conn.pos + 1]
       IN  tail' = [tail EXCEPT !.conn[c] =
                IF conn.done
                THEN Returned(conn)
                ELSE [TailLine(conn, line) EXCEPT !.pos = @ + 1]]
    /\ tailUnchanged

\* the select after the scanner: return when the stop channel is closed,
\* else sleep
TailSelect(conn) ==
    IF conn.cancelled THEN Returned(conn) ELSE [conn EXCEPT !.pc = "sleep"]

\* scanner.Err: the error is yielded, the consumer stops, and the iterator
\* goes on to its select whatever yield returned
TailScanErr(c) ==
    /\ tail.conn[c].pc = "scan"
    /\ tail.faults < MaxFaults
    /\ tail' = [tail EXCEPT !.faults = @ + 1,
                            !.conn[c] = TailSelect([@ EXCEPT !.err = TRUE,
                                                             !.done = TRUE])]
    /\ tailUnchanged

TailScanEof_NoStop(c) ==
    /\ tail.conn[c].pc = "scan"
    /\ tail.conn[c].pos = Len(tail.log)
    /\ tail' = [tail EXCEPT !.conn[c].pc = "sleep"]
    /\ tailUnchanged

\* scanner.Scan is at the end of the file
TailScanEof(c) ==
    /\ tail.conn[c].pc = "scan"
    /\ tail.conn[c].pos = Len(tail.log)
    /\ tail' = [tail EXCEPT !.conn[c] = TailSelect(@)]
    /\ tailUnchanged

TailTimer_Reopen(c) ==
    /\ tail.conn[c].pc = "sleep"
    /\ tail' = [tail EXCEPT !.conn[c].pc = "scan", !.conn[c].pos = 0,
                            !.conn[c].polls =
                                IF tail.conn[c].cancelled THEN @ + 1 ELSE @]
    /\ tailUnchanged

\* time.After fires: goto TAIL, a new scanner on the same descriptor.  The
\* timer can win the select against a stop channel closed during the sleep.
TailTimer(c) ==
    /\ tail.conn[c].pc = "sleep"
    /\ tail' = [tail EXCEPT !.conn[c].pc = "scan",
                            !.conn[c].polls =
                                IF tail.conn[c].cancelled THEN @ + 1 ELSE @]
    /\ tailUnchanged

\* the stop channel wakes the select
TailStop(c) ==
    /\ tail.conn[c].pc = "sleep"
    /\ tail.conn[c].cancelled
    /\ tail' = [tail EXCEPT !.conn[c] = Returned(@)]
    /\ tailUnchanged

\* the client disconnects: the request context is cancelled
TailCancel(c) ==
    /\ tail.conn[c].pc \in {"scan", "sleep"}
    /\ ~tail.conn[c].cancelled
    /\ tail' = [tail EXCEPT !.conn[c].cancelled = TRUE]
    /\ tailUnchanged

TailIterator(c) ==
    \/ TailScanLine(c)
    \/ TailScanEof(c)
    \/ TailTimer(c)
    \/ TailStop(c)

TailNext ==
    \/ \E line \in LogLines : AppendLog(line)
    \/ \E c \in Conns : \E h \in LastEventIds(c) : TailConnect(c, h)
    \/ \E c \in Conns : TailIterator(c)
    \/ \E c \in Conns : TailScanErr(c)
    \/ \E c \in Conns : TailCancel(c)

TailSpec == Init /\ [][TailNext]_vars

\* one connection and the log: connections share nothing but the file
TailOneNext ==
    \/ \E line \in LogLines : AppendLog(line)
    \/ \E h \in LastEventIds(1) : TailConnect(1, h)
    \/ TailIterator(1)
    \/ TailScanErr(1)
    \/ TailCancel(1)

\* the iterator runs in the goroutine of its request and gets to run
TailFairSpec == Init /\ [][TailOneNext]_vars /\ WF_vars(TailIterator(1))

\* the events of the lines k+1 .. n of the log
TailEvents(k, n) ==
    [i \in 1..(IF n > k THEN n - k ELSE 0) |-> LogEvent(k + i, tail.log[k + i])]

\* C21: a connection on an existing log has received exactly the lines it
\* has read whose 1-based number is above its Last-Event-ID (0 for a missing
\* or unparseable header), once each, in order, with the line number as id;
\* while it is open it has read every line the descriptor has passed, the
\* lines appended after the connect included.
C21_TailDeliversLinesAfterK ==
    \A c \in Conns :
        LET conn == tail.conn[c]
        IN  (conn.pc # "idle" /\ ~conn.missing) =>
                /\ conn.out = TailEvents(conn.k, conn.n)
                /\ conn.n <= Len(tail.log)
                /\ ~conn.done => conn.n = conn.pos
                /\ (conn.pc = "sleep" /\ ~conn.done /\ conn.polls = 0) =>
                        conn.n >= conn.at

\* a resumed connection has got line 2, appended while it was open, and
\* not line 1
C21_Witness ==
    \E c \in Conns :
        LET conn == tail.conn[c]
        IN  /\ conn.k = 1
            /\ conn.at = 1
            /\ ~conn.done
            /\ Len(conn.out) = 1
            /\ conn.out[1].id = 2

\* C22: a tail request that finds no log is answered with the one error
\* event and is finished at once; lines written later never reach it.
C22_MissingLogOneErrorEvent ==
    \A c \in Conns :
        LET conn == tail.conn[c]
        IN  /\ conn.missing => /\ conn.out = <<NoLogsEvent>>
                               /\ conn.done
                               /\ conn.pc = "returned"
            /\ (conn.pc # "idle" /\ conn.at = 0 /\ ~tail.exists) => conn.missing
            /\ (conn.pc = "returned" /\ conn.at = 0 /\ conn.n = 0
                    /\ ~conn.cancelled /\ ~conn.err) => conn.missing

\* the log has lines now, the connection that found none still has its
\* error event only
C22_Witness ==
    \E c \in Conns :
        /\ tail.conn[c].missing
        /\ Len(tail.log) = 2

sdUnchanged == UNCHANGED <<fs, clock, devices, rolloutVars, nFail, up, nOps,
                           gw, op, users, tokens, sessions, ui, tail>>

sdProdUnchanged == UNCHANGED <<fs, clock, devices, hPc, hReq, hEff, hResp, cPc,
                               cReq, wdFirstRun, wdSuccess, wdLines, wdLine,
                               wdRollout, wdRepeat, catalogDone, nFail, up,
                               nOps, gw, op, users, tokens, sessions, ui, tail>>

\* Shutdown is called: it blocks in s <- true on the first stop channel
Shutdown ==
    /\ sd.pc = "idle"
    /\ sd' = [sd EXCEPT !.pc = "send1"]
    /\ sdUnchanged

\* the prod watchdog ends a pass and goes to its select
ProdEndPass ==
    /\ sd.prod = "pass"
    /\ sd' = [sd EXCEPT !.prod = "select"]
    /\ sdUnchanged

\* time.After fires in the select of the prod watchdog
ProdTimer ==
    /\ sd.prod = "select"
    /\ sd.pc # "send1"
    /\ sd' = [sd EXCEPT !.prod = "pass"]
    /\ sdUnchanged

\* the prod watchdog receives from its stop channel and returns; Shutdown
\* goes on to the second channel
ProdStop ==
    /\ sd.prod = "select"
    /\ sd.pc = "send1"
    /\ sd' = [sd EXCEPT !.prod = "stopped", !.pc = "send2"]
    /\ sdUnchanged

WdStop_AtEndOfLoop ==
    /\ wdPc = "start"
    /\ ~wdFirstRun
    /\ StopSent
    /\ wdPc' = "start"
    /\ sd' = [sd EXCEPT !.pc = "returned"]
    /\ sdProdUnchanged

\* this watchdog receives from its stop channel and returns; Shutdown
\* returns
WdStop ==
    /\ wdPc = "start"
    /\ ~wdFirstRun
    /\ StopSent
    /\ wdPc' = "stopped"
    /\ sd' = [sd EXCEPT !.pc = "returned"]
    /\ sdProdUnchanged

ShutdownNext ==
    \/ \E req \in RecoveryRequests : CreateAppendJournal(req)
    \/ CreateWritePartial
    \/ CreateRename
    \/ CreateFail
    \/ WatchdogNext
    \/ WdCommitFail
    \/ Shutdown
    \/ ProdEndPass
    \/ ProdTimer
    \/ ProdStop
    \/ WdStop

\* each watchdog is a goroutine that gets to run
ShutdownSpec ==
    /\ Init
    /\ [][ShutdownNext]_vars
    /\ WF_vars(WatchdogNext \/ WdStop)
    /\ WF_vars(ProdEndPass \/ ProdStop)

\* C24: once Shutdown is sending on the stop channel of a watchdog, that
\* watchdog begins no pass from its select: it ends the pass it is in (for a
\* watchdog just started, its first), receives the value and returns; every
\* call of Shutdown returns, and then both watchdogs have stopped for good.
C24_WatchdogsStopWithinOnePoll ==
    /\ [][/\ (StopSent /\ wdPc = "start" /\ ~wdFirstRun) => wdPc' # "lines"
          /\ (sd.pc = "send1" /\ sd.prod = "select") => sd'.prod # "pass"
          /\ wdPc = "stopped" => wdPc' = "stopped"
          /\ sd.prod = "stopped" => sd'.prod = "stopped"]_vars
    /\ [](sd.pc = "returned" => (wdPc = "stopped" /\ sd.prod = "stopped"))
    /\ (sd.pc = "send1") ~> (sd.pc = "returned")

\* Shutdown came during a pass with a commit to do, and has returned with
\* that rollout committed
C24_Witness ==
    /\ sd.pc = "returned"
    /\ wdPc = "stopped"
    /\ catalogDone # {}


(***************************************************************************)
(* The journal of rollout intents                                          *)
(***************************************************************************)
JournalFiles == {rolloutJournalFile, rolloutJournalFile \o partialFileSuffix}

\* the lines of a journal file as ReadRolloutJournal splits them
JournalLines(f, name) ==
    LET dir == UpdatesBranchDir(IsProd) IN
    IF ~FileExists(f, dir, name) THEN <<>>
    ELSE LET lines == ScanLines(FileContent(f, dir, name))
         IN  [i \in 1..Len(lines) |-> Split(lines[i], "|")]

\* C27: every line of the journal, in the file being appended to and in the
\* file the watchdog reads, is one intent: it splits on "|" into tag, update
\* and rollout, so that reading the journal never reports a corrupted line.
C27_OneJournalLinePerIntent ==
    \A name \in JournalFiles :
        \A i \in DOMAIN JournalLines(fs, name) :
            Len(JournalLines(fs, name)[i]) = 3

\* a call of CreateRollout for the path has appended its line and has not
\* yet returned
InFlight(path) == cPc # "idle" /\ PathOf(cReq) = path

\* the step renames the partial journal over the journal
Rollover ==
    /\ wdPc = "lines"
    /\ wdPc' = "start"
    /\ FileExists(fs, UpdatesBranchDir(IsProd),
                  rolloutJournalFile \o partialFileSuffix)
    /\ ~FileExists(fs', UpdatesBranchDir(IsProd),
                   rolloutJournalFile \o partialFileSuffix)

\* C28: when a rollover replaces the journal, each intent of the replaced
\* journal is settled or journaled again: its rollout is committed, or its
\* file does not exist and no call is about to write it, or the new journal
\* names it too.
C28_NoIntentLostToRollover ==
    [][Rollover =>
          \A i \in DOMAIN JournalLines(fs, rolloutJournalFile) :
              LET path == JournalLines(fs, rolloutJournalFile)[i]
              IN  Len(path) = 3 =>
                      \/ Committed(fs, path)
                      \/ ~RolloutOnDisk(fs, path) /\ ~InFlight(path)
                      \/ \E j \in DOMAIN JournalLines(fs', rolloutJournalFile) :
                             JournalLines(fs', rolloutJournalFile)[j] = path]_vars


NoJournal == <<"ENOENT">>

\* the content of a journal file, NoJournal when there is none
JournalFile(f, name) ==
    IF FileExists(f, UpdatesBranchDir(IsProd), name)
    THEN FileContent(f, UpdatesBranchDir(IsProd), name)
    ELSE NoJournal

\* the step ends a pass of the watchdog
PassEnds == wdPc = "lines" /\ wdPc' = "start" /\ wdLines = <<>> /\ nFail' = nFail

\* the step begins a pass
PassBegins == wdPc = "start" /\ wdPc' = "lines"

\* C29: rollouts.journal changes only at the end of a pass that read a
\* journal of well-formed lines and had no failure; a pass with a failure
\* leaves both journal files as they are and the watchdog goes on: it begins
\* its next pass, which reads the same journal again.
C29_RolloverOnlyAfterCleanPass ==
    /\ [][/\ JournalFile(fs', rolloutJournalFile) # JournalFile(fs, rolloutJournalFile)
              => /\ PassEnds
                 /\ wdSuccess
                 /\ \A i \in DOMAIN JournalLines(fs, rolloutJournalFile) :
                        Len(JournalLines(fs, rolloutJournalFile)[i]) = 3
          /\ (PassEnds /\ ~wdSuccess)
              => \A name \in JournalFiles : JournalFile(fs', name) = JournalFile(fs, name)
          /\ PassBegins => wdLines' = JournalLines(fs, rolloutJournalFile)]_vars
    /\ [](wdPc = "start" => <>(wdPc = "lines"))

\* a pass after the first has failed and is over: the appended intents are
\* still in the partial, the journal is as it was
C29_Witness ==
    /\ wdPc = "start"
    /\ ~wdFirstRun
    /\ ~wdSuccess
    /\ JournalLines(fs, rolloutJournalFile) # <<>>
    /\ JournalLines(fs, rolloutJournalFile \o partialFileSuffix) # <<>>

\* C30: the pass that ends with firstRun still set, the first since the
\* process started, leaves both journal files as they are whatever its
\* outcome; a later successful pass that finds no partial leaves the journal
\* as it is and the watchdog goes on.
C30_NoRolloverOnFirstPass ==
    [][/\ (PassEnds /\ wdFirstRun) => fs' = fs
       /\ (PassEnds /\ JournalFile(fs, rolloutJournalFile \o partialFileSuffix) = NoJournal)
              => fs' = fs]_vars

\* the first pass is over without a failure: there is a partial with an
\* intent, and still no journal
C30_Witness ==
    /\ wdPc = "start"
    /\ ~wdFirstRun
    /\ wdSuccess
    /\ JournalFile(fs, rolloutJournalFile) = NoJournal
    /\ JournalLines(fs, rolloutJournalFile \o partialFileSuffix) # <<>>


(***************************************************************************)
(* Two committers of one rollout: the PUT handler and the watchdog         *)
(***************************************************************************)
\* the handler is between its catalog update and its 202 for the path
PhaseB(h, path) ==
    /\ hPc[h] \in {"update", "save2", "save2r"}
    /\ PathOf(hReq[h]) = path

\* the watchdog is inside CommitRollout for the path
WdCommitting(path) ==
    /\ wdPc \in {"commit", "save", "rename"}
    /\ wdLine = path

\* the rollout file reads as a well-formed committed rollout with this
\* effect
ReadsCommitted(f, path, effect) ==
    /\ ReadRollout(f, path).err = ""
    /\ ReadRollout(f, path).rollout.commit
    /\ ReadRollout(f, path).rollout.effect = effect

\* C31: whichever of the two committers of a rollout completes last, it
\* leaves a well-formed rollout file with committed=true and the effective
\* uuids its catalog update returned: the handler at its 202 when the
\* watchdog has committed the rollout meanwhile (the body carried no
\* committed flag of its own), the watchdog at the end of a CommitRollout
\* without error while the handler is in its Phase B.  No third writer
\* (a CreateRollout call) is at work on the file and no operation has
\* failed.
C31_ConcurrentCommitEndsCommitted ==
    [][/\ \A h \in Handlers :
              (/\ cPc = "idle"
               /\ nFail = 0
               /\ hPc[h] = "save2r"
               /\ hResp'[h] = 202
               /\ ~hReq[h].body.commit
               /\ Committed(fs, PathOf(hReq[h])))
                => ReadsCommitted(fs', PathOf(hReq[h]), hEff[h])
       /\ (/\ cPc = "idle"
           /\ wdPc = "rename"
           /\ wdPc' = "lines"
           /\ wdSuccess'
           /\ nFail' = 0
           /\ \E h \in Handlers : PhaseB(h, wdLine) /\ ~hReq[h].body.commit)
                => ReadsCommitted(fs', wdLine, wdRollout.effect)]_vars


(***************************************************************************)
(* PUT requests for one rollout name meeting each other                    *)
(***************************************************************************)
PutRequests == {Request(Tag1, Update1, Roll1, b) : b \in Bodies}

PutNext ==
    \/ \E h \in Handlers, req \in PutRequests : PutBegin(h, req)
    \/ \E h \in Handlers : PutWritePartial(h)
    \/ \E h \in Handlers : PutRename(h)
    \/ \E h \in Handlers : PutSetUpdateName(h)
    \/ \E h \in Handlers : PutReturn(h)

PutSpec == Init /\ [][PutNext]_vars

\* the handler has answered 202 for the path and not yet returned
Accepted(h, path) ==
    hPc[h] = "done" /\ hResp[h] = 202 /\ PathOf(hReq[h]) = path

\* C32: of the PUT requests for one rollout name in flight together at most
\* one is answered 202, and a rollout file once stored keeps its uuids and
\* groups whatever request comes after.
C32_OnePutAccepted ==
    /\ [](\A h1, h2 \in Handlers :
            (h1 # h2 /\ Accepted(h1, PathOf(hReq[h1])))
                => ~Accepted(h2, PathOf(hReq[h1])))
    /\ [][\A path \in {PathOf(req) : req \in PutRequests} :
            (ReadRollout(fs, path).err = "" /\ ReadRollout(fs', path).err = "")
                => /\ ReadRollout(fs', path).rollout.uuids
                        = ReadRollout(fs, path).rollout.uuids
                   /\ ReadRollout(fs', path).rollout.groups
                        = ReadRollout(fs, path).rollout.groups]_vars


(***************************************************************************)
(* An uncommitted rollout reconciled after a later rollout                 *)
(*                                                                         *)
(* roll1 of update1 is created through Storage.CreateRollout and left to   *)
(* the watchdog; once it is journaled the operator PUTs roll1 of update2,  *)
(* which the handler commits to the catalog itself.                        *)
(***************************************************************************)
FirstRollout == <<Tag1, Update1, Roll1>>
LaterRequests == {Request(Tag1, Update2, Roll1, b) : b \in CreateBodies}

ReconcileNext ==
    \/ \E req \in CreateRequests : CreateAppendJournal(req)
    \/ CreateWritePartial
    \/ CreateRename
    \/ CreateFail
    \/ \E h \in OneHandler, req \in LaterRequests :
            Journaled(fs, FirstRollout) /\ PutBegin(h, req)
    \/ \E h \in OneHandler : PutWritePartial(h)
    \/ \E h \in OneHandler : PutRename(h)
    \/ \E h \in OneHandler : PutSetUpdateName(h)
    \/ \E h \in OneHandler : PutReturn(h)
    \/ WatchdogNext
    \/ WdCommitFail
    \/ Crash

ReconcileSpec == Init /\ [][ReconcileNext]_vars

\* a rollout of another update than the one the watchdog has in hand has
\* set the device's update_name in the catalog
CommittedElsewhere(u) ==
    \E path \in catalogDone :
        /\ path[2] # wdLine[2]
        /\ devices[u].update_name = path[2]

\* C33: the catalog update of a watchdog commit leaves the update_name of
\* every device that a rollout of a different update, created after the one
\* being reconciled, has set.
C33_ReconcileKeepsLaterRollout ==
    [][(wdPc = "commit" /\ wdPc' = "save" /\ wdLine = FirstRollout)
          => \A u \in DOMAIN devices :
                 CommittedElsewhere(u)
                     => devices'[u].update_name = devices[u].update_name]_vars


(***************************************************************************)
(* One pass over a journal of several lines                                *)
(*                                                                         *)
(* The journal is found on disk as the watchdog test leaves it: one        *)
(* terminated line per rollout, written to the file directly.  Each        *)
(* rollout file is missing, unreadable (not one JSON document) or stored   *)
(* with committed = false.                                                 *)
(***************************************************************************)
LaterRollout == <<Tag1, Update2, Roll1>>

StoredJournals ==
    {<<FirstRollout, LaterRollout>>, <<LaterRollout, FirstRollout>>}

JournalText(paths) ==
    JournalLog(paths[1][1], paths[1][2], paths[1][3]) \o <<"\n">>
        \o JournalLog(paths[2][1], paths[2][2], paths[2][3]) \o <<"\n">>

RolloutFiles == {"missing", "unreadable", "uncommitted"}

StoreRollout(f, path, kind) ==
    IF kind = "missing" THEN f
    ELSE PutEntry(f, RolloutsDir(IsProd, path[1], path[2]), path[3],
                  [content |-> IF kind = "unreadable" THEN <<>>
                               ELSE <<Rollout({"ci1"}, {"grp1"}, {}, FALSE)>>,
                   mtime |-> 0])

JournalInit ==
    /\ \E paths \in StoredJournals, k1 \in RolloutFiles, k2 \in RolloutFiles :
           fs = StoreRollout(
                    StoreRollout(
                        PutEntry([d \in {UpdatesBranchDir(IsProd)} |-> EmptyDir],
                                 UpdatesBranchDir(IsProd), rolloutJournalFile,
                                 [content |-> JournalText(paths), mtime |-> 0]),
                        FirstRollout, k1),
                    LaterRollout, k2)
    /\ clock = 0
    /\ nFail = 0
    /\ up = [u \in Uploaders |-> NoCall]
    /\ nOps = 0
    /\ InitRollouts

JournalNext ==
    \/ WatchdogNext
    \/ WdCommitFail

JournalSpec == JournalInit /\ [][JournalNext]_vars

\* GetRollout fails on the line the loop is at, the file being there
RolloutUnreadable ==
    /\ wdPc = "lines"
    /\ wdLines # <<>>
    /\ Len(Head(wdLines)) = 3
    /\ ReadRollout(fs, Head(wdLines)).err \notin {"", "notexist"}
    /\ wdLines' # wdLines

\* CommitRollout returns without the rollout being stored as committed
CommitFailed ==
    /\ wdPc \in {"commit", "save", "rename"}
    /\ wdPc' = "lines"
    /\ ~Committed(fs', wdLine)

\* C34: when a rollout file cannot be read or its commit fails, the loop
\* over the journal goes on with all the lines that follow, and the pass
\* stays unsuccessful until it ends, which it does only with no line left.
C34_LineFailureKeepsPassGoing ==
    [][/\ RolloutUnreadable
           => (wdSuccess' = FALSE /\ wdPc' = "lines" /\ wdLines' = Tail(wdLines))
       /\ CommitFailed => (wdSuccess' = FALSE /\ wdLines' = wdLines)
       /\ (wdPc # "start" /\ ~wdSuccess) => ~wdSuccess'
       /\ (wdPc = "lines" /\ wdPc' = "start") => wdLines = <<>>]_vars

\* a line is being committed in a pass that an earlier line has failed
C34_Witness ==
    /\ wdPc = "commit"
    /\ ~wdSuccess
    /\ wdLines = <<>>


(***************************************************************************)
(* A write that fails                                                      *)
(***************************************************************************)
\* what os.ReadFile of the name being written returns: nothing, or a file
Target(f, u) ==
    IF FileExists(f, up[u].dir, up[u].name)
    THEN <<f[up[u].dir][up[u].name]>> ELSE <<>>

\* the writeFile call in hand returns an error
WriteFailed(u) ==
    /\ up[u].pc \in {"write", "rename"}
    /\ up'[u] = NoCall
    /\ nFail' = nFail + 1

\* the files put in place by writeFile: all but the event buckets, which
\* are appended to
WrittenFiles(f) ==
    {<<dir, n>> \in UNION {{<<d, m>> : m \in DOMAIN f[d]} : d \in DOMAIN f} :
        ~HasSuffix(n, partialFileSuffix) /\ ~HasPrefix(n, EventsPrefix)}

\* C35: a writeFile that fails at any step leaves the file of the target
\* name as it was, or leaves the name absent as it was, and at no time does
\* a name without the partial suffix hold a content that was cut short.
C35_FailedWriteKeepsTarget ==
    /\ [](\A w \in WrittenFiles(fs) : Len(fs[w[1]][w[2]].content) = 1)
    /\ [][\A u \in Uploaders : WriteFailed(u) => Target(fs', u) = Target(fs, u)]_vars

\* a second write of the inventory file was cut short: the name holds the
\* first content, the partial holds nothing
C35_Witness ==
    /\ FileExists(fs, DeviceDir(Dev), AktomlFile)
    /\ FileExists(fs, DeviceDir(Dev), AktomlFile \o partialFileSuffix)
    /\ FileContent(fs, DeviceDir(Dev), AktomlFile \o partialFileSuffix) = <<>>
    /\ FileContent(fs, DeviceDir(Dev), AktomlFile) = <<"toml">>
    /\ \A u \in Uploaders : up[u] = NoCall


(***************************************************************************)
(* Two uploads of one device at a time                                     *)
(***************************************************************************)
UploadBatches ==
    {<<UpdateEvent("1", NewCorr1)>>,
     <<UpdateEvent("1", NewCorr2)>>,
     <<UpdateEvent("1", NewCorr1), UpdateEvent("2", NewCorr2)>>}

UploadNext ==
    \/ \E u \in Uploaders, batch \in UploadBatches : EventsUpload(u, batch)
    \/ \E u \in Uploaders : ProcessEventsAppend(u)
    \/ \E u \in Uploaders : SaveAppsStates(u, "states")
    \/ \E u \in Uploaders : writeFileWrite(u)
    \/ \E u \in Uploaders : writeFileRename(u)
    \/ \E u \in Uploaders : rolloverFilesList(u)
    \/ \E u \in Uploaders : rolloverFilesRemove(u)

UploadSpec == FsInit /\ [][UploadNext]_vars

\* os.Remove of the rollover finds the file gone: rolloverFiles, and with
\* it the upload, returns the error
RemoveFailed(u) ==
    /\ up[u].pc = "remove"
    /\ ~FileExists(fs, up[u].dir, Head(up[u].remove))
    /\ up'[u] = NoCall

FilesOf(f, prefix) ==
    {n \in DOMAIN DirEntries(f, DeviceDir(Dev)) : HasPrefix(n, prefix \o <<"-">>)}

\* C36: of two uploads of one device that overlap none returns an error,
\* and once both have returned the directory holds at most maxEvents
\* events-* files and at most maxStates apps-states-* files.
C36_ConcurrentUploadsComplete ==
    /\ [][\A u \in Uploaders : ~RemoveFailed(u)]_vars
    /\ []((\A u \in Uploaders : up[u].pc = "idle") =>
             /\ Cardinality(FilesOf(fs, EventsPrefix)) <= maxEvents
             /\ Cardinality(FilesOf(fs, StatesPrefix)) <= maxStates)


(***************************************************************************)
(* Rollover over buckets last written in the same millisecond              *)
(*                                                                         *)
(* ProcessEvents sleeps between two correlation ids of one batch, not      *)
(* between two uploads: here the uploads that made events-c1 and then      *)
(* events-c2 were served within one millisecond.                           *)
(***************************************************************************)
TiedFiles ==
    [n \in DOMAIN StoredFiles |->
        IF n = EventsFileName(CorrId(1))
        THEN [StoredFiles[n] EXCEPT !.mtime = 2]
        ELSE StoredFiles[n]]

RolloverInit ==
    /\ fs = [d \in {UpdatesBranchDir(IsProd), DeviceDir(Dev)} |->
                IF d = DeviceDir(Dev) THEN TiedFiles ELSE EmptyDir]
    /\ clock = maxEvents
    /\ nFail = 0
    /\ up = [u \in Uploaders |-> NoCall]
    /\ nOps = 0
    /\ InitRollouts

RolloverNext ==
    \/ \E u \in OneUploader, batch \in UploadBatches : EventsUpload(u, batch)
    \/ \E u \in OneUploader : ProcessEventsAppend(u)
    \/ \E u \in OneUploader : SaveAppsStates(u, "states")
    \/ \E u \in OneUploader : writeFileWrite(u)
    \/ \E u \in OneUploader : writeFileRename(u)
    \/ \E u \in OneUploader : rolloverFilesList(u)
    \/ \E u \in OneUploader : rolloverFilesRemove(u)

RolloverSpec == RolloverInit /\ [][RolloverNext]_vars

\* the place of a stored file among the uploads that made the directory;
\* the files written since come after all of them
WriteOrder(n) ==
    IF \E i \in 1..maxEvents : n \in {EventsFileName(CorrId(i)), StatesFileName(i)}
    THEN CHOOSE i \in 1..maxEvents :
             n \in {EventsFileName(CorrId(i)), StatesFileName(i)}
    ELSE maxEvents + 1

\* a was last written before b
WrittenBefore(dir, a, b) ==
    \/ fs[dir][a].mtime < fs[dir][b].mtime
    \/ /\ fs[dir][a].mtime = fs[dir][b].mtime
       /\ WriteOrder(a) < WriteOrder(b)

\* C37: the names a rollover sets out to remove are len-N in number, none
\* of them was modified after a file that is kept, and each of them was
\* last written before every file that is kept; each os.Remove that follows
\* deletes the next of them.
C37_RolloverRemovesOldest ==
    [][\A u \in OneUploader :
          /\ up[u].pc = "list" =>
                LET dir     == up[u].dir
                    names   == matchFiles(fs, dir, up[u].prefix)
                    removed == {up'[u].remove[i] : i \in 1..Len(up'[u].remove)}
                    kept    == names \ removed
                    over    == Cardinality(names) - up[u].max
                IN  /\ removed \subseteq names
                    /\ Cardinality(removed) = IF over > 0 THEN over ELSE 0
                    /\ \A r \in removed, k \in kept :
                           /\ fs[dir][r].mtime <= fs[dir][k].mtime
                           /\ WrittenBefore(dir, r, k)
          /\ up[u].pc = "remove" =>
                fs' = RemoveEntry(fs, up[u].dir, Head(up[u].remove))]_vars


(***************************************************************************)
(* Check-ins beside rollout commits                                        *)
(*                                                                         *)
(* A gateway request reads the device row into a Device object and calls   *)
(* Device.CheckIn on it later; the catalog statement of a rollout commit   *)
(* may run in between.  The rows carry the columns of both statements.     *)
(***************************************************************************)
FullDevices ==
    [u \in {"ci1", "ci2"} |->
        [f \in DOMAIN InitDevices[u]
                \cup DOMAIN DeviceRow("pub1", FALSE, FALSE, 0, Tag1, NoLabels) |->
            IF f \in DOMAIN InitDevices[u] THEN InitDevices[u][f]
            ELSE DeviceRow("pub1", FALSE, FALSE, 0, Tag1, NoLabels)[f]]]

\* a statement that replaces the row, the columns it does not name going
\* back to their defaults
stmtDeviceCheckIn_Replace(devs, uuid, targetName, tag, ostreeHash, apps, lastSeen) ==
    [devs EXCEPT ![uuid] =
        [@ EXCEPT !.target_name = targetName, !.tag = tag,
                  !.ostree_hash = ostreeHash, !.apps = apps,
                  !.last_seen = lastSeen, !.update_name = <<>>]]

\* UPDATE devices SET target_name=?, tag=?, ostree_hash=?, apps=?,
\* last_seen=? WHERE uuid = ?
stmtDeviceCheckIn(devs, uuid, targetName, tag, ostreeHash, apps, lastSeen) ==
    [devs EXCEPT ![uuid] =
        [@ EXCEPT !.target_name = targetName, !.tag = tag,
                  !.ostree_hash = ostreeHash, !.apps = apps,
                  !.last_seen = lastSeen]]

\* authDevice: DeviceGet scans the row into the Device of the request
DeviceGetRow(uuid) ==
    /\ gw.pc \in {"idle", "done"}
    /\ nOps < MaxOps
    /\ nOps' = nOps + 1
    /\ gw' = [n |-> nOps', pc |-> "next", uuid |-> uuid, kind |-> "device",
              hdr |-> NoHeaders, resp |-> 0, d |-> devices[uuid]]
    /\ UNCHANGED <<fs, clock, devices, up, op>>
    /\ gwUnchanged

\* Device.CheckIn on the Device of the request: the comparison is with the
\* fields read by DeviceGet, the UPDATE is by uuid
DeviceCheckIn(targetName, tag, ostreeHash, apps) ==
    /\ gw.pc = "next"
    /\ devices' =
           IF /\ apps = gw.d.apps
              /\ ostreeHash = gw.d.ostree_hash
              /\ tag = gw.d.tag
              /\ targetName = gw.d.target_name
              /\ UnixNow - gw.d.last_seen < 60
           THEN devices
           ELSE stmtDeviceCheckIn(devices, gw.uuid, targetName, tag, ostreeHash,
                                  apps, UnixNow)
    /\ gw' = [gw EXCEPT !.pc = "done", !.resp = 200]
    /\ UNCHANGED <<fs, clock, up, nOps, op>>
    /\ gwUnchanged

\* the catalog statement of a rollout commit (rolloutPut or the watchdog)
RolloutSetUpdateName(updateName, uuids) ==
    /\ nOps < MaxOps
    /\ nOps' = nOps + 1
    /\ devices' = SetUpdateName(devices, Tag1, updateName, IsProd, uuids, {})
    /\ UNCHANGED <<fs, clock, up, gw, op>>
    /\ gwUnchanged

CommitCheckInInit ==
    /\ fs = [d \in {UpdatesBranchDir(IsProd)} |-> EmptyDir]
    /\ clock = 0
    /\ nFail = 0
    /\ up = [u \in Uploaders |-> NoCall]
    /\ nOps = 0
    /\ devices = FullDevices
    /\ InitHandlers
    /\ NoUsers

CommitCheckInNext ==
    \/ \E uuid \in DOMAIN FullDevices : DeviceGetRow(uuid)
    \/ \E targetName \in {"", "t1"}, tag \in {Tag1, Tag2},
          ostreeHash \in {""}, apps \in {"", "a1"} :
           DeviceCheckIn(targetName, tag, ostreeHash, apps)
    \/ \E updateName \in {Update1, Update2}, uuids \in {{"ci1"}} :
           RolloutSetUpdateName(updateName, uuids)
    \/ Wait

CommitCheckInSpec == CommitCheckInInit /\ [][CommitCheckInNext]_vars

CheckInColumns == {"target_name", "tag", "ostree_hash", "apps", "last_seen"}

\* C38: the step of Device.CheckIn changes no row but that of its device,
\* and of that row no column but target_name, tag, ostree_hash, apps and
\* last_seen: update_name stays what the last rollout commit made it, also
\* when that commit ran after the request had read the row.
C38_CheckInKeepsUpdateName ==
    [][(gw.pc = "next" /\ gw'.pc = "done") =>
           \A u \in DOMAIN devices :
               /\ devices'[u].update_name = devices[u].update_name
               /\ \A f \in DOMAIN devices[u] :
                      devices'[u][f] # devices[u][f]
                          => (u = gw.uuid /\ f \in CheckInColumns)]_vars

\* a check-in has written the row of a device that a rollout committed
\* while the request was in hand
C38_Witness ==
    /\ gw.pc = "done"
    /\ gw.d.update_name = <<>>
    /\ devices[gw.uuid].update_name = Update2
    /\ devices[gw.uuid].target_name = "t1"
    /\ devices[gw.uuid].tag = Tag2


(***************************************************************************)
(* Sessions of a deleted user                                              *)
(***************************************************************************)
\* the stored sessions whose user has been deleted
OrphanSessions ==
    {id \in DOMAIN sessions :
        /\ sessions[id].user_id \in DOMAIN users
        /\ users[sessions[id].user_id].deleted}

\* C39: the lookup of a session whose user has been deleted returns a nil
\* user, at any second, for as long as the session is stored.
C39_DeletedUserSessionsResolveToNil ==
    \A id \in OrphanSessions :
        GetBySession(sessions, users, UnixNow, id).u = NilUser


(***************************************************************************)
(* The tail primitive over a missing file                                  *)
(***************************************************************************)
\* the iterator of TailFileLines is started on a file that is not there
TailOpensMissing(c) ==
    /\ tail.conn[c].pc = "idle"
    /\ tail'.conn[c].pc # "idle"
    /\ ~tail.exists

\* C40 as stated: over a missing file the iterator yields neither a line
\* nor an error and returns at once.
C40_MissingFileEmitsNothing ==
    [][\A c \in Conns :
          TailOpensMissing(c) =>
              /\ tail'.conn[c].pc = "returned"
              /\ tail'.conn[c].polls = 0
              /\ tail'.conn[c].n = 0
              /\ ~tail'.conn[c].missing]_vars

\* C40: over a missing file the iterator yields the error of the open, once,
\* and no line, and returns at once without a look at the stop channel.
C40_MissingFileOneError ==
    [][\A c \in Conns :
          TailOpensMissing(c) =>
              /\ TailFileLines(tail.exists) = "error"
              /\ tail'.conn[c].pc = "returned"
              /\ tail'.conn[c].polls = 0
              /\ tail'.conn[c].n = 0
              /\ tail'.conn[c].missing]_vars

\* the iterator has returned from a file that is still missing
C40_Witness ==
    \E c \in Conns :
        /\ ~tail.exists
        /\ tail.conn[c].pc = "returned"
        /\ tail.conn[c].missing
        /\ tail.conn[c].n = 0
        /\ tail.conn[c].polls = 0

====
